---------------------------- MODULE Spec2Model ----------------------------
(***************************************************************************)
(* Animal photo gallery: the ingestion service (computer_server.py), the   *)
(* category resolver and store writer (image_classifier.py).               *)
(*                                                                         *)
(* Text is modelled as sequences of one-character strings, so that         *)
(* Python's `in` (substring), lower(), title() and replace() are computed  *)
(* and not assumed.  Confidences are integers in percent (0..100).         *)
(***************************************************************************)
EXTENDS Integers, Sequences, FiniteSets, TLC

(***************************************************************************)
(* Vocabularies, copied from image_classifier.py in source order.          *)
(***************************************************************************)
dog_labels ==
  <<
    <<"g","r","e","y","h","o","u","n","d">>,
    <<"g","o","l","d","e","n"," ","r","e","t","r","i","e","v","e","r">>,
    <<"L","a","b","r","a","d","o","r"," ","r","e","t","r","i","e","v","e","r">>,
    <<"G","e","r","m","a","n"," ","s","h","e","p","h","e","r","d">>,
    <<"p","u","g">>,
    <<"c","h","i","h","u","a","h","u","a">>,
    <<"b","e","a","g","l","e">>,
    <<"b","u","l","l","d","o","g">>,
    <<"h","u","s","k","y">>,
    <<"d","a","l","m","a","t","i","a","n">>,
    <<"G","r","e","a","t"," ","D","a","n","e">>,
    <<"b","o","x","e","r">>,
    <<"D","o","b","e","r","m","a","n">>,
    <<"r","o","t","t","w","e","i","l","e","r">>,
    <<"s","c","h","n","a","u","z","e","r">>,
    <<"S","h","e","t","l","a","n","d"," ","s","h","e","e","p","d","o","g">>,
    <<"w","h","i","p","p","e","t">>,
    <<"b","l","o","o","d","h","o","u","n","d">>,
    <<"m","a","l","a","m","u","t","e">>,
    <<"p","a","p","i","l","l","o","n">>,
    <<"S","h","i","h","-","T","z","u">>,
    <<"A","f","g","h","a","n"," ","h","o","u","n","d">>,
    <<"b","a","s","s","e","t">>,
    <<"c","o","c","k","e","r"," ","s","p","a","n","i","e","l">>,
    <<"c","o","l","l","i","e">>,
    <<"p","o","o","d","l","e">>,
    <<"d","i","n","g","o">>,
    <<"d","h","o","l","e">>,
    <<"A","f","r","i","c","a","n"," ","h","u","n","t","i","n","g"," ","d","o","g">>
  >>

cat_labels ==
  <<
    <<"t","a","b","b","y">>,
    <<"P","e","r","s","i","a","n"," ","c","a","t">>,
    <<"S","i","a","m","e","s","e"," ","c","a","t">>,
    <<"E","g","y","p","t","i","a","n"," ","c","a","t">>,
    <<"t","i","g","e","r"," ","c","a","t">>,
    <<"c","a","t">>
  >>

bird_labels ==
  <<
    <<"r","o","b","i","n">>,
    <<"j","u","n","c","o">>,
    <<"b","r","a","m","b","l","i","n","g">>,
    <<"s","p","a","r","r","o","w">>,
    <<"e","a","g","l","e">>,
    <<"v","u","l","t","u","r","e">>,
    <<"p","e","a","c","o","c","k">>,
    <<"f","l","a","m","i","n","g","o">>,
    <<"o","s","t","r","i","c","h">>,
    <<"p","e","n","g","u","i","n">>,
    <<"b","a","l","d"," ","e","a","g","l","e">>,
    <<"g","o","l","d","e","n"," ","e","a","g","l","e">>,
    <<"b","l","a","c","k"," ","g","r","o","u","s","e">>,
    <<"p","t","a","r","m","i","g","a","n">>,
    <<"r","u","f","f","e","d"," ","g","r","o","u","s","e">>,
    <<"p","r","a","i","r","i","e"," ","c","h","i","c","k","e","n">>,
    <<"q","u","a","i","l">>,
    <<"p","a","r","t","r","i","d","g","e">>,
    <<"A","f","r","i","c","a","n"," ","g","r","e","y">>,
    <<"m","a","c","a","w">>,
    <<"s","u","l","p","h","u","r","-","c","r","e","s","t","e","d"," ","c","o","c","k","a","t","o","o">>,
    <<"l","o","r","i","k","e","e","t">>,
    <<"c","o","u","c","a","l">>,
    <<"b","e","e"," ","e","a","t","e","r">>,
    <<"h","o","r","n","b","i","l","l">>,
    <<"h","u","m","m","i","n","g","b","i","r","d">>,
    <<"j","a","c","a","m","a","r">>,
    <<"t","o","u","c","a","n">>,
    <<"d","r","a","k","e">>,
    <<"r","e","d","-","b","r","e","a","s","t","e","d"," ","m","e","r","g","a","n","s","e","r">>,
    <<"g","o","o","s","e">>,
    <<"b","l","a","c","k"," ","s","w","a","n">>,
    <<"w","h","i","t","e"," ","s","t","o","r","k">>,
    <<"b","l","a","c","k"," ","s","t","o","r","k">>,
    <<"s","p","o","o","n","b","i","l","l">>,
    <<"l","i","t","t","l","e"," ","b","l","u","e"," ","h","e","r","o","n">>,
    <<"A","m","e","r","i","c","a","n"," ","e","g","r","e","t">>,
    <<"b","i","t","t","e","r","n">>,
    <<"c","r","a","n","e">>,
    <<"l","i","m","p","k","i","n">>,
    <<"r","a","i","l">>,
    <<"c","o","o","t">>,
    <<"b","u","s","t","a","r","d">>,
    <<"r","u","d","d","y"," ","t","u","r","n","s","t","o","n","e">>,
    <<"r","e","d","-","b","a","c","k","e","d"," ","s","a","n","d","p","i","p","e","r">>,
    <<"r","e","d","s","h","a","n","k">>,
    <<"d","o","w","i","t","c","h","e","r">>,
    <<"o","y","s","t","e","r","c","a","t","c","h","e","r">>,
    <<"p","e","l","i","c","a","n">>,
    <<"k","i","n","g"," ","p","e","n","g","u","i","n">>,
    <<"a","l","b","a","t","r","o","s","s">>
  >>

other_animal_labels ==
  <<
    <<"t","i","g","e","r">>,
    <<"b","e","n","g","a","l"," ","t","i","g","e","r">>,
    <<"s","i","b","e","r","i","a","n"," ","t","i","g","e","r">>,
    <<"a","m","u","r"," ","t","i","g","e","r">>,
    <<"c","h","e","e","t","a","h">>,
    <<"l","i","o","n">>,
    <<"a","f","r","i","c","a","n"," ","l","i","o","n">>,
    <<"a","s","i","a","n"," ","l","i","o","n">>,
    <<"s","n","o","w"," ","l","e","o","p","a","r","d">>,
    <<"i","r","b","i","s">>,
    <<"j","a","g","u","a","r">>,
    <<"c","o","u","g","a","r">>,
    <<"m","o","u","n","t","a","i","n"," ","l","i","o","n">>,
    <<"p","u","m","a">>,
    <<"p","a","n","t","h","e","r">>,
    <<"l","y","n","x">>,
    <<"l","e","o","p","a","r","d">>,
    <<"a","f","r","i","c","a","n"," ","l","e","o","p","a","r","d">>,
    <<"c","l","o","u","d","e","d"," ","l","e","o","p","a","r","d">>,
    <<"a","m","u","r"," ","l","e","o","p","a","r","d">>,
    <<"o","c","e","l","o","t">>,
    <<"c","a","r","a","c","a","l">>,
    <<"s","e","r","v","a","l">>,
    <<"l","i","n","s","a","n","g">>,
    <<"b","i","n","t","u","r","o","n","g">>,
    <<"a","m","e","r","i","c","a","n"," ","b","l","a","c","k"," ","b","e","a","r">>,
    <<"b","l","a","c","k"," ","b","e","a","r">>,
    <<"b","r","o","w","n"," ","b","e","a","r">>,
    <<"g","r","i","z","z","l","y"," ","b","e","a","r">>,
    <<"g","r","i","z","z","l","y">>,
    <<"p","o","l","a","r"," ","b","e","a","r">>,
    <<"i","c","e"," ","b","e","a","r">>,
    <<"u","r","s","u","s"," ","m","a","r","i","t","i","m","u","s">>,
    <<"s","l","o","t","h"," ","b","e","a","r">>,
    <<"h","o","n","e","y"," ","b","e","a","r">>,
    <<"s","u","n"," ","b","e","a","r">>,
    <<"p","a","n","d","a"," ","b","e","a","r">>,
    <<"g","i","a","n","t"," ","p","a","n","d","a">>,
    <<"w","o","l","f">>,
    <<"g","r","a","y"," ","w","o","l","f">>,
    <<"g","r","e","y"," ","w","o","l","f">>,
    <<"a","r","c","t","i","c"," ","w","o","l","f">>,
    <<"r","e","d"," ","w","o","l","f">>,
    <<"f","o","x">>,
    <<"r","e","d"," ","f","o","x">>,
    <<"a","r","c","t","i","c"," ","f","o","x">>,
    <<"f","e","n","n","e","c">>,
    <<"k","i","t"," ","f","o","x">>,
    <<"g","r","e","y"," ","f","o","x">>,
    <<"j","a","c","k","a","l">>,
    <<"c","o","y","o","t","e">>,
    <<"o","r","a","n","g","u","t","a","n">>,
    <<"o","r","a","n","g","-","u","t","a","n">>,
    <<"o","r","a","n","g"," ","u","t","a","n">>,
    <<"g","o","r","i","l","l","a">>,
    <<"l","o","w","l","a","n","d"," ","g","o","r","i","l","l","a">>,
    <<"m","o","u","n","t","a","i","n"," ","g","o","r","i","l","l","a">>,
    <<"c","h","i","m","p","a","n","z","e","e">>,
    <<"c","h","i","m","p">>,
    <<"p","a","n"," ","t","r","o","g","l","o","d","y","t","e","s">>,
    <<"g","i","b","b","o","n">>,
    <<"s","i","a","m","a","n","g">>,
    <<"l","a","r"," ","g","i","b","b","o","n">>,
    <<"b","a","b","o","o","n">>,
    <<"h","a","m","a","d","r","y","a","s">>,
    <<"m","a","n","d","r","i","l","l">>,
    <<"d","r","i","l","l">>,
    <<"m","a","c","a","q","u","e">>,
    <<"r","h","e","s","u","s">>,
    <<"r","h","e","s","u","s"," ","m","o","n","k","e","y">>,
    <<"v","e","r","v","e","t">>,
    <<"v","e","r","v","e","t"," ","m","o","n","k","e","y">>,
    <<"l","a","n","g","u","r">>,
    <<"c","o","l","o","b","u","s">>,
    <<"c","o","l","o","b","u","s"," ","m","o","n","k","e","y">>,
    <<"g","u","e","n","o","n">>,
    <<"p","a","t","a","s">>,
    <<"c","a","p","u","c","h","i","n">>,
    <<"h","o","w","l","e","r">>,
    <<"h","o","w","l","e","r"," ","m","o","n","k","e","y">>,
    <<"s","p","i","d","e","r"," ","m","o","n","k","e","y">>,
    <<"s","q","u","i","r","r","e","l"," ","m","o","n","k","e","y">>,
    <<"t","i","t","i">>,
    <<"m","a","r","m","o","s","e","t">>,
    <<"t","a","m","a","r","i","n">>,
    <<"i","n","d","r","i">>,
    <<"l","e","m","u","r">>,
    <<"r","i","n","g","-","t","a","i","l","e","d"," ","l","e","m","u","r">>,
    <<"a","y","e","-","a","y","e">>,
    <<"a","y","e"," ","a","y","e">>,
    <<"t","a","r","s","i","e","r">>,
    <<"t","a","r","s","i","u","s">>,
    <<"l","o","r","i","s">>,
    <<"s","l","o","w"," ","l","o","r","i","s">>,
    <<"s","l","e","n","d","e","r"," ","l","o","r","i","s">>,
    <<"g","a","l","a","g","o">>,
    <<"b","u","s","h","b","a","b","y">>,
    <<"b","u","s","h"," ","b","a","b","y">>,
    <<"h","y","e","n","a">>,
    <<"h","y","a","e","n","a">>,
    <<"s","p","o","t","t","e","d"," ","h","y","e","n","a">>,
    <<"s","t","r","i","p","e","d"," ","h","y","e","n","a">>,
    <<"I","n","d","i","a","n"," ","e","l","e","p","h","a","n","t">>,
    <<"A","f","r","i","c","a","n"," ","e","l","e","p","h","a","n","t">>,
    <<"A","s","i","a","n"," ","e","l","e","p","h","a","n","t">>,
    <<"e","l","e","p","h","a","n","t">>,
    <<"p","e","n","g","u","i","n">>,
    <<"e","m","p","e","r","o","r"," ","p","e","n","g","u","i","n">>,
    <<"r","o","c","k","h","o","p","p","e","r">>,
    <<"a","d","e","l","i","e">>,
    <<"k","i","n","g"," ","p","e","n","g","u","i","n">>,
    <<"w","h","a","l","e">>,
    <<"b","l","u","e"," ","w","h","a","l","e">>,
    <<"g","r","e","y"," ","w","h","a","l","e">>,
    <<"g","r","a","y"," ","w","h","a","l","e">>,
    <<"k","i","l","l","e","r"," ","w","h","a","l","e">>,
    <<"o","r","c","a">>,
    <<"h","u","m","p","b","a","c","k">>,
    <<"d","o","l","p","h","i","n">>,
    <<"b","o","t","t","l","e","n","o","s","e"," ","d","o","l","p","h","i","n">>,
    <<"b","o","t","t","l","e","n","o","s","e">>,
    <<"s","p","i","n","n","e","r"," ","d","o","l","p","h","i","n">>,
    <<"d","u","g","o","n","g">>,
    <<"s","e","a"," ","l","i","o","n">>,
    <<"s","e","a","l">>,
    <<"f","u","r"," ","s","e","a","l">>,
    <<"l","e","o","p","a","r","d"," ","s","e","a","l">>,
    <<"w","a","l","r","u","s">>,
    <<"s","e","a"," ","o","t","t","e","r">>,
    <<"o","t","t","e","r">>,
    <<"r","i","v","e","r"," ","o","t","t","e","r">>,
    <<"m","a","n","a","t","e","e">>,
    <<"s","e","a"," ","c","o","w">>,
    <<"n","a","r","w","h","a","l">>,
    <<"b","e","l","u","g","a">>,
    <<"p","y","t","h","o","n">>,
    <<"b","a","l","l"," ","p","y","t","h","o","n">>,
    <<"r","e","t","i","c","u","l","a","t","e","d"," ","p","y","t","h","o","n">>,
    <<"b","u","r","m","e","s","e"," ","p","y","t","h","o","n">>,
    <<"c","o","b","r","a">>,
    <<"k","i","n","g"," ","c","o","b","r","a">>,
    <<"i","n","d","i","a","n"," ","c","o","b","r","a">>,
    <<"b","l","a","c","k"," ","c","o","b","r","a">>,
    <<"s","p","i","t","t","i","n","g"," ","c","o","b","r","a">>,
    <<"m","a","m","b","a">>,
    <<"g","r","e","e","n"," ","m","a","m","b","a">>,
    <<"b","l","a","c","k"," ","m","a","m","b","a">>,
    <<"b","o","a">>,
    <<"b","o","a"," ","c","o","n","s","t","r","i","c","t","o","r">>,
    <<"a","n","a","c","o","n","d","a">>,
    <<"g","r","e","e","n"," ","a","n","a","c","o","n","d","a">>,
    <<"y","e","l","l","o","w"," ","a","n","a","c","o","n","d","a">>,
    <<"r","a","t","t","l","e","s","n","a","k","e">>,
    <<"d","i","a","m","o","n","d","b","a","c","k">>,
    <<"d","i","a","m","o","n","d","b","a","c","k"," ","r","a","t","t","l","e","s","n","a","k","e">>,
    <<"s","i","d","e","w","i","n","d","e","r">>,
    <<"v","i","p","e","r">>,
    <<"p","i","t"," ","v","i","p","e","r">>,
    <<"h","o","r","n","e","d"," ","v","i","p","e","r">>,
    <<"s","e","a"," ","s","n","a","k","e">>,
    <<"s","e","a"," ","k","r","a","i","t">>,
    <<"k","r","a","i","t">>,
    <<"c","o","r","n"," ","s","n","a","k","e">>,
    <<"m","i","l","k"," ","s","n","a","k","e">>,
    <<"k","i","n","g"," ","s","n","a","k","e">>,
    <<"w","a","t","e","r"," ","s","n","a","k","e">>,
    <<"g","a","r","t","e","r"," ","s","n","a","k","e">>,
    <<"h","o","g","n","o","s","e"," ","s","n","a","k","e">>,
    <<"b","l","a","c","k"," ","s","n","a","k","e">>,
    <<"g","r","e","e","n"," ","s","n","a","k","e">>,
    <<"t","h","u","n","d","e","r"," ","s","n","a","k","e">>,
    <<"r","i","n","g","n","e","c","k"," ","s","n","a","k","e">>,
    <<"v","i","n","e"," ","s","n","a","k","e">>,
    <<"n","i","g","h","t"," ","s","n","a","k","e">>,
    <<"r","o","c","k"," ","p","y","t","h","o","n">>,
    <<"s","p","i","t","t","i","n","g"," ","s","n","a","k","e">>,
    <<"k","o","m","o","d","o"," ","d","r","a","g","o","n">>,
    <<"k","o","m","o","d","o">>,
    <<"m","o","n","i","t","o","r">>,
    <<"m","o","n","i","t","o","r"," ","l","i","z","a","r","d">>,
    <<"n","i","l","e"," ","m","o","n","i","t","o","r">>,
    <<"i","g","u","a","n","a">>,
    <<"g","r","e","e","n"," ","i","g","u","a","n","a">>,
    <<"c","o","m","m","o","n"," ","i","g","u","a","n","a">>,
    <<"c","h","a","m","e","l","e","o","n">>,
    <<"v","e","i","l","e","d"," ","c","h","a","m","e","l","e","o","n">>,
    <<"p","a","n","t","h","e","r"," ","c","h","a","m","e","l","e","o","n">>,
    <<"j","a","c","k","s","o","n"," ","c","h","a","m","e","l","e","o","n">>,
    <<"c","r","e","s","t","e","d"," ","c","h","a","m","e","l","e","o","n">>,
    <<"a","f","r","i","c","a","n"," ","c","h","a","m","e","l","e","o","n">>,
    <<"g","e","c","k","o">>,
    <<"l","e","o","p","a","r","d"," ","g","e","c","k","o">>,
    <<"d","a","y"," ","g","e","c","k","o">>,
    <<"c","r","e","s","t","e","d"," ","g","e","c","k","o">>,
    <<"f","r","i","l","l","e","d"," ","l","i","z","a","r","d">>,
    <<"f","r","i","l","l","e","d">>,
    <<"a","g","a","m","a">>,
    <<"b","e","a","r","d","e","d"," ","a","g","a","m","a">>,
    <<"b","a","s","i","l","i","s","k">>,
    <<"h","o","r","n","e","d"," ","l","i","z","a","r","d">>,
    <<"g","i","l","a"," ","m","o","n","s","t","e","r">>,
    <<"b","e","a","d","e","d"," ","l","i","z","a","r","d">>,
    <<"s","k","i","n","k">>,
    <<"s","l","o","w"," ","w","o","r","m">>,
    <<"l","e","g","l","e","s","s"," ","l","i","z","a","r","d">>,
    <<"a","l","l","i","g","a","t","o","r"," ","l","i","z","a","r","d">>,
    <<"g","r","e","e","n"," ","l","i","z","a","r","d">>,
    <<"w","a","l","l"," ","l","i","z","a","r","d">>,
    <<"a","n","o","l","e">>,
    <<"w","h","i","p","t","a","i","l">>,
    <<"t","o","r","t","o","i","s","e">>,
    <<"g","i","a","n","t"," ","t","o","r","t","o","i","s","e">>,
    <<"g","a","l","a","p","a","g","o","s"," ","t","o","r","t","o","i","s","e">>,
    <<"a","l","d","a","b","r","a"," ","t","o","r","t","o","i","s","e">>,
    <<"s","e","a"," ","t","u","r","t","l","e">>,
    <<"g","r","e","e","n"," ","s","e","a"," ","t","u","r","t","l","e">>,
    <<"l","o","g","g","e","r","h","e","a","d">>,
    <<"l","o","g","g","e","r","h","e","a","d"," ","t","u","r","t","l","e">>,
    <<"h","a","w","k","s","b","i","l","l"," ","t","u","r","t","l","e">>,
    <<"h","a","w","k","s","b","i","l","l">>,
    <<"l","e","a","t","h","e","r","b","a","c","k"," ","t","u","r","t","l","e">>,
    <<"l","e","a","t","h","e","r","b","a","c","k">>,
    <<"o","l","i","v","e"," ","r","i","d","l","e","y">>,
    <<"t","u","r","t","l","e">>,
    <<"b","o","x"," ","t","u","r","t","l","e">>,
    <<"p","a","i","n","t","e","d"," ","t","u","r","t","l","e">>,
    <<"r","e","d","-","e","a","r","e","d"," ","s","l","i","d","e","r">>,
    <<"s","l","i","d","e","r">>,
    <<"s","n","a","p","p","i","n","g"," ","t","u","r","t","l","e">>,
    <<"t","e","r","r","a","p","i","n">>,
    <<"m","u","d"," ","t","u","r","t","l","e">>,
    <<"c","r","o","c","o","d","i","l","e">>,
    <<"n","i","l","e"," ","c","r","o","c","o","d","i","l","e">>,
    <<"s","a","l","t","w","a","t","e","r"," ","c","r","o","c","o","d","i","l","e">>,
    <<"s","a","l","t","i","e">>,
    <<"a","m","e","r","i","c","a","n"," ","c","r","o","c","o","d","i","l","e">>,
    <<"a","l","l","i","g","a","t","o","r">>,
    <<"a","m","e","r","i","c","a","n"," ","a","l","l","i","g","a","t","o","r">>,
    <<"g","a","t","o","r">>,
    <<"c","a","i","m","a","n">>,
    <<"s","p","e","c","t","a","c","l","e","d"," ","c","a","i","m","a","n">>,
    <<"b","l","a","c","k"," ","c","a","i","m","a","n">>,
    <<"g","h","a","r","i","a","l">>,
    <<"f","a","l","s","e"," ","g","h","a","r","i","a","l">>,
    <<"p","o","i","s","o","n"," ","d","a","r","t"," ","f","r","o","g">>,
    <<"p","o","i","s","o","n"," ","f","r","o","g">>,
    <<"d","a","r","t"," ","f","r","o","g">>,
    <<"t","r","e","e"," ","f","r","o","g">>,
    <<"r","e","d","-","e","y","e","d"," ","t","r","e","e"," ","f","r","o","g">>,
    <<"r","e","d","-","e","y","e","d">>,
    <<"b","u","l","l","f","r","o","g">>,
    <<"a","m","e","r","i","c","a","n"," ","b","u","l","l","f","r","o","g">>,
    <<"b","u","l","l"," ","f","r","o","g">>,
    <<"f","r","o","g">>,
    <<"l","e","o","p","a","r","d"," ","f","r","o","g">>,
    <<"g","r","e","e","n"," ","f","r","o","g">>,
    <<"c","h","o","r","u","s"," ","f","r","o","g">>,
    <<"s","p","r","i","n","g"," ","p","e","e","p","e","r">>,
    <<"t","o","a","d">>,
    <<"c","a","n","e"," ","t","o","a","d">>,
    <<"b","u","f","o">>,
    <<"a","m","e","r","i","c","a","n"," ","t","o","a","d">>,
    <<"t","r","u","e"," ","t","o","a","d">>,
    <<"a","x","o","l","o","t","l">>,
    <<"s","a","l","a","m","a","n","d","e","r">>,
    <<"t","i","g","e","r"," ","s","a","l","a","m","a","n","d","e","r">>,
    <<"s","p","o","t","t","e","d"," ","s","a","l","a","m","a","n","d","e","r">>,
    <<"f","i","r","e"," ","s","a","l","a","m","a","n","d","e","r">>,
    <<"e","u","r","o","p","e","a","n"," ","f","i","r","e"," ","s","a","l","a","m","a","n","d","e","r">>,
    <<"h","e","l","l","b","e","n","d","e","r">>,
    <<"g","i","a","n","t"," ","s","a","l","a","m","a","n","d","e","r">>,
    <<"c","h","i","n","e","s","e"," ","s","a","l","a","m","a","n","d","e","r">>,
    <<"j","a","p","a","n","e","s","e"," ","s","a","l","a","m","a","n","d","e","r">>,
    <<"n","e","w","t">>,
    <<"a","l","p","i","n","e"," ","n","e","w","t">>,
    <<"s","m","o","o","t","h"," ","n","e","w","t">>,
    <<"c","o","m","m","o","n"," ","n","e","w","t">>,
    <<"e","f","t">>,
    <<"m","u","d"," ","p","u","p","p","y">>,
    <<"s","i","r","e","n">>,
    <<"c","a","e","c","i","l","i","a","n">>,
    <<"z","e","b","r","a">>,
    <<"p","l","a","i","n","s"," ","z","e","b","r","a">>,
    <<"m","o","u","n","t","a","i","n"," ","z","e","b","r","a">>,
    <<"g","r","e","v","y","'","s"," ","z","e","b","r","a">>,
    <<"g","i","r","a","f","f","e">>,
    <<"o","k","a","p","i">>,
    <<"h","i","p","p","o","p","o","t","a","m","u","s">>,
    <<"h","i","p","p","o">>,
    <<"r","h","i","n","o","c","e","r","o","s">>,
    <<"r","h","i","n","o">>,
    <<"w","h","i","t","e"," ","r","h","i","n","o">>,
    <<"b","l","a","c","k"," ","r","h","i","n","o">>,
    <<"s","u","m","a","t","r","a","n"," ","r","h","i","n","o">>,
    <<"d","e","e","r">>,
    <<"r","e","d"," ","d","e","e","r">>,
    <<"m","u","l","e"," ","d","e","e","r">>,
    <<"s","i","k","a"," ","d","e","e","r">>,
    <<"e","l","k">>,
    <<"m","o","o","s","e">>,
    <<"r","e","i","n","d","e","e","r">>,
    <<"c","a","r","i","b","o","u">>,
    <<"a","n","t","e","l","o","p","e">>,
    <<"p","r","o","n","g","h","o","r","n">>,
    <<"g","a","z","e","l","l","e">>,
    <<"s","p","r","i","n","g","b","o","k">>,
    <<"i","m","p","a","l","a">>,
    <<"k","u","d","u">>,
    <<"e","l","a","n","d">>,
    <<"w","i","l","d","e","b","e","e","s","t">>,
    <<"g","n","u">>,
    <<"n","y","a","l","a">>,
    <<"o","r","y","x">>,
    <<"a","d","d","a","x">>,
    <<"g","e","m","s","b","u","c","k">>,
    <<"w","a","t","e","r","b","u","c","k">>,
    <<"b","u","s","h","b","u","c","k">>,
    <<"d","u","i","k","e","r">>,
    <<"b","u","f","f","a","l","o">>,
    <<"w","a","t","e","r"," ","b","u","f","f","a","l","o">>,
    <<"b","i","s","o","n">>,
    <<"a","m","e","r","i","c","a","n"," ","b","i","s","o","n">>,
    <<"e","u","r","o","p","e","a","n"," ","b","i","s","o","n">>,
    <<"c","a","m","e","l">>,
    <<"d","r","o","m","e","d","a","r","y">>,
    <<"a","r","a","b","i","a","n"," ","c","a","m","e","l">>,
    <<"b","a","c","t","r","i","a","n"," ","c","a","m","e","l">>,
    <<"l","l","a","m","a">>,
    <<"a","l","p","a","c","a">>,
    <<"g","u","a","n","a","c","o">>,
    <<"v","i","c","u","n","a">>,
    <<"s","h","e","e","p">>,
    <<"l","a","m","b">>,
    <<"r","a","m">>,
    <<"b","i","g","h","o","r","n">>,
    <<"b","i","g","h","o","r","n"," ","s","h","e","e","p">>,
    <<"g","o","a","t">>,
    <<"k","i","d">>,
    <<"m","o","u","n","t","a","i","n"," ","g","o","a","t">>,
    <<"i","b","e","x">>,
    <<"h","o","r","s","e">>,
    <<"p","o","n","y">>,
    <<"m","a","r","e">>,
    <<"s","t","a","l","l","i","o","n">>,
    <<"c","o","l","t">>,
    <<"f","o","a","l">>,
    <<"d","o","n","k","e","y">>,
    <<"m","u","l","e">>,
    <<"a","s","s">>,
    <<"c","a","t","t","l","e">>,
    <<"c","o","w">>,
    <<"b","u","l","l">>,
    <<"o","x">>,
    <<"h","o","l","s","t","e","i","n">>,
    <<"h","e","r","e","f","o","r","d">>,
    <<"p","i","g">>,
    <<"h","o","g">>,
    <<"w","i","l","d"," ","b","o","a","r">>,
    <<"w","a","r","t","h","o","g">>,
    <<"b","a","b","i","r","u","s","a">>,
    <<"p","e","c","c","a","r","y">>,
    <<"j","a","v","e","l","i","n","a">>,
    <<"o","x">>,
    <<"y","a","k">>,
    <<"m","u","s","k"," ","o","x">>,
    <<"c","h","e","v","r","o","t","a","i","n">>,
    <<"t","a","k","i","n">>,
    <<"s","o","r","r","e","l">>,
    <<"r","e","d"," ","p","a","n","d","a">>,
    <<"r","a","c","c","o","o","n">>,
    <<"s","k","u","n","k">>,
    <<"w","e","a","s","e","l">>,
    <<"m","i","n","k">>,
    <<"p","o","l","e","c","a","t">>,
    <<"b","l","a","c","k","-","f","o","o","t","e","d"," ","f","e","r","r","e","t">>,
    <<"f","e","r","r","e","t">>,
    <<"b","a","d","g","e","r">>,
    <<"a","r","m","a","d","i","l","l","o">>,
    <<"t","h","r","e","e","-","t","o","e","d"," ","s","l","o","t","h">>,
    <<"t","w","o","-","t","o","e","d"," ","s","l","o","t","h">>,
    <<"s","l","o","t","h">>,
    <<"p","o","r","c","u","p","i","n","e">>,
    <<"q","u","i","l","l"," ","p","i","g">>,
    <<"b","e","a","v","e","r">>,
    <<"h","a","m","s","t","e","r">>,
    <<"g","u","i","n","e","a"," ","p","i","g">>,
    <<"h","e","d","g","e","h","o","g">>,
    <<"m","o","l","e">>,
    <<"s","h","r","e","w">>,
    <<"f","l","y","i","n","g"," ","s","q","u","i","r","r","e","l">>,
    <<"f","o","x"," ","s","q","u","i","r","r","e","l">>,
    <<"s","q","u","i","r","r","e","l">>,
    <<"m","a","r","m","o","t">>,
    <<"p","r","a","i","r","i","e"," ","d","o","g">>,
    <<"g","r","o","u","n","d"," ","s","q","u","i","r","r","e","l">>,
    <<"c","h","i","p","m","u","n","k">>,
    <<"c","h","i","n","c","h","i","l","l","a">>,
    <<"p","a","c","a">>,
    <<"a","g","o","u","t","i">>,
    <<"n","u","t","r","i","a">>,
    <<"c","a","p","y","b","a","r","a">>,
    <<"d","e","s","m","a","n">>,
    <<"k","o","a","l","a">>,
    <<"w","o","m","b","a","t">>,
    <<"w","a","l","l","a","b","y">>,
    <<"k","a","n","g","a","r","o","o">>,
    <<"r","e","d"," ","k","a","n","g","a","r","o","o">>,
    <<"g","r","e","y"," ","k","a","n","g","a","r","o","o">>,
    <<"t","r","e","e"," ","k","a","n","g","a","r","o","o">>,
    <<"e","c","h","i","d","n","a">>,
    <<"p","l","a","t","y","p","u","s">>,
    <<"t","a","s","m","a","n","i","a","n"," ","d","e","v","i","l">>,
    <<"s","u","g","a","r"," ","g","l","i","d","e","r">>,
    <<"f","e","a","t","h","e","r","t","a","i","l"," ","g","l","i","d","e","r">>,
    <<"o","p","o","s","s","u","m">>,
    <<"p","o","s","s","u","m">>,
    <<"q","u","o","k","k","a">>,
    <<"n","u","m","b","a","t">>,
    <<"b","u","r","r","o","w","i","n","g"," ","b","e","t","t","o","n","g">>,
    <<"a","a","r","d","v","a","r","k">>,
    <<"a","n","t","e","a","t","e","r">>,
    <<"a","n","t"," ","e","a","t","e","r">>,
    <<"p","a","n","g","o","l","i","n">>,
    <<"h","y","r","a","x">>,
    <<"r","o","c","k"," ","h","y","r","a","x">>,
    <<"t","r","e","e"," ","h","y","r","a","x">>,
    <<"y","e","l","l","o","w","-","s","p","o","t","t","e","d"," ","h","y","r","a","x">>,
    <<"c","o","l","u","g","o">>,
    <<"f","l","y","i","n","g"," ","l","e","m","u","r">>,
    <<"f","l","y","i","n","g"," ","d","r","a","g","o","n">>,
    <<"s","c","a","l","y","-","t","a","i","l","e","d"," ","f","l","y","i","n","g"," ","d","r","a","g","o","n">>,
    <<"e","m","u">>,
    <<"c","a","s","s","o","w","a","r","y">>,
    <<"k","i","w","i">>,
    <<"r","h","e","a">>,
    <<"t","r","e","e"," ","s","h","r","e","w">>,
    <<"t","u","p","a","i","a">>,
    <<"t","u","p","a","y","o">>,
    <<"t","r","e","e","s","h","r","e","w">>
  >>

animal_keywords ==
  <<
    <<"a","n","i","m","a","l">>,
    <<"m","a","m","m","a","l">>,
    <<"b","i","r","d">>,
    <<"f","i","s","h">>,
    <<"r","e","p","t","i","l","e">>,
    <<"a","m","p","h","i","b","i","a","n">>,
    <<"i","n","s","e","c","t">>,
    <<"a","r","a","c","h","n","i","d">>,
    <<"c","r","u","s","t","a","c","e","a","n">>,
    <<"m","o","l","l","u","s","k">>,
    <<"r","o","d","e","n","t">>,
    <<"c","a","r","n","i","v","o","r","e">>,
    <<"h","e","r","b","i","v","o","r","e">>,
    <<"o","m","n","i","v","o","r","e">>,
    <<"v","e","r","t","e","b","r","a","t","e">>,
    <<"i","n","v","e","r","t","e","b","r","a","t","e">>
  >>

human_keywords ==
  <<
    <<"p","e","r","s","o","n">>,
    <<"h","u","m","a","n">>,
    <<"m","a","n">>,
    <<"w","o","m","a","n">>,
    <<"b","o","y">>,
    <<"g","i","r","l">>,
    <<"c","h","i","l","d">>,
    <<"b","a","b","y">>,
    <<"p","e","o","p","l","e">>,
    <<"f","a","c","e">>,
    <<"s","e","l","f","i","e">>,
    <<"p","o","r","t","r","a","i","t">>,
    <<"h","e","a","d">>,
    <<"h","e","a","d","s","h","o","t">>,
    <<"b","a","s","e","b","a","l","l"," ","p","l","a","y","e","r">>,
    <<"b","a","s","k","e","t","b","a","l","l"," ","p","l","a","y","e","r">>,
    <<"s","o","c","c","e","r"," ","p","l","a","y","e","r">>,
    <<"f","o","o","t","b","a","l","l"," ","p","l","a","y","e","r">>,
    <<"r","u","n","n","e","r">>,
    <<"a","t","h","l","e","t","e">>,
    <<"c","l","i","m","b","e","r">>,
    <<"s","k","i","e","r">>,
    <<"s","n","o","w","b","o","a","r","d","e","r">>,
    <<"s","w","i","m","m","e","r">>,
    <<"b","r","i","d","e">>,
    <<"g","r","o","o","m">>,
    <<"c","o","w","b","o","y">>,
    <<"c","o","w","g","i","r","l">>,
    <<"p","o","l","i","c","e"," ","o","f","f","i","c","e","r">>,
    <<"p","o","l","i","c","e","m","a","n">>,
    <<"p","o","l","i","c","e","w","o","m","a","n">>,
    <<"f","i","r","e","f","i","g","h","t","e","r">>,
    <<"d","o","c","t","o","r">>,
    <<"n","u","r","s","e">>,
    <<"c","h","e","f">>,
    <<"w","a","i","t","e","r">>,
    <<"b","u","s","i","n","e","s","s","m","a","n">>,
    <<"b","u","s","i","n","e","s","s","w","o","m","a","n">>,
    <<"s","t","u","d","e","n","t">>,
    <<"s","c","u","b","a"," ","d","i","v","e","r">>,
    <<"s","o","l","d","i","e","r">>,
    <<"s","u","r","g","e","o","n">>
  >>
generalization_rules ==
  <<
    [line |-> 231, any |-> <<<<"r","e","t","r","i","e","v","e","r">>, <<"s","h","e","p","h","e","r","d">>, <<"p","u","g">>, <<"c","h","i","h","u","a","h","u","a">>, <<"b","e","a","g","l","e">>, <<"b","u","l","l","d","o","g">>, <<"h","u","s","k","y">>, <<"d","a","l","m","a","t","i","a","n">>, <<"d","a","n","e">>, <<"b","o","x","e","r">>, <<"d","o","b","e","r","m","a","n">>, <<"r","o","t","t","w","e","i","l","e","r">>, <<"s","c","h","n","a","u","z","e","r">>, <<"s","h","e","e","p","d","o","g">>, <<"w","h","i","p","p","e","t">>, <<"b","l","o","o","d","h","o","u","n","d">>, <<"m","a","l","a","m","u","t","e">>, <<"p","a","p","i","l","l","o","n">>, <<"s","h","i","h">>, <<"h","o","u","n","d">>, <<"b","a","s","s","e","t">>, <<"s","p","a","n","i","e","l">>, <<"c","o","l","l","i","e">>, <<"p","o","o","d","l","e">>, <<"t","e","r","r","i","e","r">>, <<"d","i","n","g","o">>, <<"d","h","o","l","e">>>>, eq |-> <<>>, none |-> <<>>, title |-> FALSE,
     name |-> <<"D","o","g">>],
    [line |-> 235, any |-> <<<<"t","a","b","b","y">>, <<"p","e","r","s","i","a","n"," ","c","a","t">>, <<"s","i","a","m","e","s","e">>, <<"e","g","y","p","t","i","a","n"," ","c","a","t">>, <<"t","i","g","e","r"," ","c","a","t">>>>, eq |-> <<>>, none |-> <<>>, title |-> FALSE,
     name |-> <<"C","a","t">>],
    [line |-> 237, any |-> <<>>, eq |-> <<"c","a","t">>, none |-> <<>>, title |-> FALSE,
     name |-> <<"C","a","t">>],
    [line |-> 246, any |-> <<<<"t","i","g","e","r">>>>, eq |-> <<>>, none |-> <<>>, title |-> FALSE,
     name |-> <<"T","i","g","e","r">>],
    [line |-> 246, any |-> <<<<"l","i","o","n">>>>, eq |-> <<>>, none |-> <<>>, title |-> FALSE,
     name |-> <<"L","i","o","n">>],
    [line |-> 246, any |-> <<<<"c","h","e","e","t","a","h">>>>, eq |-> <<>>, none |-> <<>>, title |-> FALSE,
     name |-> <<"C","h","e","e","t","a","h">>],
    [line |-> 246, any |-> <<<<"l","e","o","p","a","r","d">>>>, eq |-> <<>>, none |-> <<>>, title |-> FALSE,
     name |-> <<"L","e","o","p","a","r","d">>],
    [line |-> 246, any |-> <<<<"j","a","g","u","a","r">>>>, eq |-> <<>>, none |-> <<>>, title |-> FALSE,
     name |-> <<"J","a","g","u","a","r">>],
    [line |-> 246, any |-> <<<<"c","o","u","g","a","r">>>>, eq |-> <<>>, none |-> <<>>, title |-> FALSE,
     name |-> <<"C","o","u","g","a","r">>],
    [line |-> 246, any |-> <<<<"l","y","n","x">>>>, eq |-> <<>>, none |-> <<>>, title |-> FALSE,
     name |-> <<"L","y","n","x">>],
    [line |-> 246, any |-> <<<<"s","n","o","w"," ","l","e","o","p","a","r","d">>>>, eq |-> <<>>, none |-> <<>>, title |-> FALSE,
     name |-> <<"S","n","o","w"," ","L","e","o","p","a","r","d">>],
    [line |-> 251, any |-> <<<<"d","u","c","k">>, <<"m","a","l","l","a","r","d">>, <<"w","o","o","d"," ","d","u","c","k">>, <<"t","e","a","l">>>>, eq |-> <<>>, none |-> <<>>, title |-> FALSE,
     name |-> <<"D","u","c","k">>],
    [line |-> 253, any |-> <<<<"s","w","a","n">>, <<"b","l","a","c","k"," ","s","w","a","n">>, <<"m","u","t","e"," ","s","w","a","n">>>>, eq |-> <<>>, none |-> <<>>, title |-> FALSE,
     name |-> <<"S","w","a","n">>],
    [line |-> 255, any |-> <<<<"g","o","o","s","e">>, <<"c","a","n","a","d","a"," ","g","o","o","s","e">>, <<"s","n","o","w"," ","g","o","o","s","e">>>>, eq |-> <<>>, none |-> <<>>, title |-> FALSE,
     name |-> <<"G","o","o","s","e">>],
    [line |-> 257, any |-> <<<<"p","e","a","c","o","c","k">>, <<"p","e","a","f","o","w","l">>, <<"i","n","d","i","a","n"," ","p","e","a","f","o","w","l">>>>, eq |-> <<>>, none |-> <<>>, title |-> FALSE,
     name |-> <<"P","e","a","c","o","c","k">>],
    [line |-> 259, any |-> <<<<"f","l","a","m","i","n","g","o">>, <<"p","i","n","k"," ","f","l","a","m","i","n","g","o">>>>, eq |-> <<>>, none |-> <<>>, title |-> FALSE,
     name |-> <<"F","l","a","m","i","n","g","o">>],
    [line |-> 261, any |-> <<<<"o","s","t","r","i","c","h">>>>, eq |-> <<>>, none |-> <<>>, title |-> FALSE,
     name |-> <<"O","s","t","r","i","c","h">>],
    [line |-> 263, any |-> <<<<"c","h","i","c","k","e","n">>, <<"r","o","o","s","t","e","r">>, <<"h","e","n">>, <<"c","h","i","c","k","e","n"," ","r","o","o","s","t","e","r">>>>, eq |-> <<>>, none |-> <<>>, title |-> FALSE,
     name |-> <<"C","h","i","c","k","e","n">>],
    [line |-> 265, any |-> <<<<"t","u","r","k","e","y">>>>, eq |-> <<>>, none |-> <<>>, title |-> FALSE,
     name |-> <<"T","u","r","k","e","y">>],
    [line |-> 276, any |-> <<<<"b","i","r","d">>, <<"e","a","g","l","e">>, <<"h","a","w","k">>, <<"o","w","l">>, <<"p","e","n","g","u","i","n">>, <<"p","a","r","r","o","t">>, <<"m","a","c","a","w">>, <<"c","o","c","k","a","t","o","o">>, <<"l","o","r","i","k","e","e","t">>, <<"p","a","r","a","k","e","e","t">>, <<"h","o","r","n","b","i","l","l">>, <<"h","u","m","m","i","n","g","b","i","r","d">>, <<"t","o","u","c","a","n">>, <<"s","t","o","r","k">>, <<"e","g","r","e","t">>, <<"c","r","a","n","e">>, <<"p","e","l","i","c","a","n">>, <<"d","u","c","k">>, <<"s","w","a","n">>, <<"g","o","o","s","e">>, <<"p","e","a","c","o","c","k">>, <<"f","l","a","m","i","n","g","o">>, <<"o","s","t","r","i","c","h">>, <<"c","h","i","c","k","e","n">>, <<"t","u","r","k","e","y">>, <<"e","m","u">>, <<"c","a","s","s","o","w","a","r","y">>, <<"k","i","w","i">>, <<"r","h","e","a">>, <<"c","r","o","w">>, <<"r","a","v","e","n">>, <<"j","a","y">>, <<"m","a","g","p","i","e">>, <<"f","a","l","c","o","n">>, <<"v","u","l","t","u","r","e">>, <<"r","o","b","i","n">>, <<"w","o","o","d","p","e","c","k","e","r">>, <<"a","l","b","a","t","r","o","s","s">>, <<"p","u","f","f","i","n">>, <<"g","u","l","l">>, <<"t","e","r","n">>, <<"h","e","r","o","n">>, <<"s","a","n","d","p","i","p","e","r">>, <<"a","v","o","c","e","t">>, <<"p","l","o","v","e","r">>, <<"l","o","o","n">>, <<"c","o","r","m","o","r","a","n","t">>>>, eq |-> <<>>, none |-> <<>>, title |-> FALSE,
     name |-> <<"B","i","r","d">>],
    [line |-> 280, any |-> <<<<"e","l","e","p","h","a","n","t">>>>, eq |-> <<>>, none |-> <<>>, title |-> FALSE,
     name |-> <<"E","l","e","p","h","a","n","t">>],
    [line |-> 284, any |-> <<<<"p","a","n","d","a">>>>, eq |-> <<>>, none |-> <<>>, title |-> FALSE,
     name |-> <<"P","a","n","d","a">>],
    [line |-> 288, any |-> <<<<"b","e","a","r">>>>, eq |-> <<>>, none |-> <<<<"t","e","d","d","y">>>>, title |-> FALSE,
     name |-> <<"B","e","a","r">>],
    [line |-> 292, any |-> <<<<"m","o","n","k","e","y">>, <<"a","p","e">>, <<"g","o","r","i","l","l","a">>, <<"c","h","i","m","p","a","n","z","e","e">>, <<"o","r","a","n","g","u","t","a","n">>, <<"g","i","b","b","o","n">>, <<"b","a","b","o","o","n">>, <<"m","a","c","a","q","u","e">>, <<"l","e","m","u","r">>, <<"m","a","r","m","o","s","e","t">>, <<"c","a","p","u","c","h","i","n">>>>, eq |-> <<>>, none |-> <<>>, title |-> FALSE,
     name |-> <<"M","o","n","k","e","y","/","P","r","i","m","a","t","e">>],
    [line |-> 298, any |-> <<<<"w","h","a","l","e">>, <<"d","o","l","p","h","i","n">>, <<"s","e","a","l">>, <<"w","a","l","r","u","s">>, <<"s","e","a"," ","l","i","o","n">>, <<"d","u","g","o","n","g">>>>, eq |-> <<>>, none |-> <<>>, title |-> FALSE,
     name |-> <<"M","a","r","i","n","e"," ","M","a","m","m","a","l">>],
    [line |-> 303, any |-> <<<<"s","n","a","k","e">>, <<"l","i","z","a","r","d">>, <<"i","g","u","a","n","a">>, <<"c","h","a","m","e","l","e","o","n">>, <<"g","e","c","k","o">>, <<"c","r","o","c","o","d","i","l","e">>, <<"a","l","l","i","g","a","t","o","r">>, <<"t","u","r","t","l","e">>, <<"t","o","r","t","o","i","s","e">>, <<"t","e","r","r","a","p","i","n">>>>, eq |-> <<>>, none |-> <<>>, title |-> FALSE,
     name |-> <<"R","e","p","t","i","l","e">>],
    [line |-> 309, any |-> <<<<"f","r","o","g">>, <<"t","o","a","d">>, <<"s","a","l","a","m","a","n","d","e","r">>, <<"n","e","w","t">>>>, eq |-> <<>>, none |-> <<>>, title |-> FALSE,
     name |-> <<"A","m","p","h","i","b","i","a","n">>],
    [line |-> 313, any |-> <<<<"c","o","w">>, <<"b","u","l","l">>, <<"c","a","t","t","l","e">>, <<"h","o","l","s","t","e","i","n">>, <<"h","e","r","e","f","o","r","d">>>>, eq |-> <<>>, none |-> <<>>, title |-> FALSE,
     name |-> <<"C","o","w">>],
    [line |-> 315, any |-> <<<<"s","h","e","e","p">>, <<"l","a","m","b">>>>, eq |-> <<>>, none |-> <<>>, title |-> FALSE,
     name |-> <<"S","h","e","e","p">>],
    [line |-> 317, any |-> <<<<"g","o","a","t">>, <<"k","i","d">>>>, eq |-> <<>>, none |-> <<>>, title |-> FALSE,
     name |-> <<"G","o","a","t">>],
    [line |-> 319, any |-> <<<<"h","o","r","s","e">>, <<"p","o","n","y">>, <<"m","a","r","e">>, <<"s","t","a","l","l","i","o","n">>, <<"c","o","l","t">>, <<"f","o","a","l">>>>, eq |-> <<>>, none |-> <<>>, title |-> FALSE,
     name |-> <<"H","o","r","s","e">>],
    [line |-> 321, any |-> <<<<"p","i","g">>, <<"h","o","g">>, <<"s","w","i","n","e">>>>, eq |-> <<>>, none |-> <<>>, title |-> FALSE,
     name |-> <<"P","i","g">>],
    [line |-> 323, any |-> <<<<"d","o","n","k","e","y">>, <<"m","u","l","e">>, <<"a","s","s">>>>, eq |-> <<>>, none |-> <<>>, title |-> FALSE,
     name |-> <<"D","o","n","k","e","y">>],
    [line |-> 327, any |-> <<<<"d","e","e","r">>, <<"e","l","k">>, <<"m","o","o","s","e">>, <<"r","e","i","n","d","e","e","r">>, <<"c","a","r","i","b","o","u">>>>, eq |-> <<>>, none |-> <<>>, title |-> FALSE,
     name |-> <<"D","e","e","r">>],
    [line |-> 329, any |-> <<<<"z","e","b","r","a">>>>, eq |-> <<>>, none |-> <<>>, title |-> FALSE,
     name |-> <<"Z","e","b","r","a">>],
    [line |-> 331, any |-> <<<<"g","i","r","a","f","f","e">>>>, eq |-> <<>>, none |-> <<>>, title |-> FALSE,
     name |-> <<"G","i","r","a","f","f","e">>],
    [line |-> 333, any |-> <<<<"g","a","z","e","l","l","e">>, <<"a","n","t","e","l","o","p","e">>, <<"i","m","p","a","l","a">>>>, eq |-> <<>>, none |-> <<>>, title |-> FALSE,
     name |-> <<"A","n","t","e","l","o","p","e">>],
    [line |-> 335, any |-> <<<<"b","u","f","f","a","l","o">>, <<"b","i","s","o","n">>>>, eq |-> <<>>, none |-> <<>>, title |-> FALSE,
     name |-> <<"B","u","f","f","a","l","o">>],
    [line |-> 337, any |-> <<<<"c","a","m","e","l">>, <<"d","r","o","m","e","d","a","r","y">>>>, eq |-> <<>>, none |-> <<>>, title |-> FALSE,
     name |-> <<"C","a","m","e","l">>],
    [line |-> 339, any |-> <<<<"l","l","a","m","a">>, <<"a","l","p","a","c","a">>>>, eq |-> <<>>, none |-> <<>>, title |-> FALSE,
     name |-> <<"L","l","a","m","a">>],
    [line |-> 341, any |-> <<<<"r","h","i","n","o">>>>, eq |-> <<>>, none |-> <<>>, title |-> FALSE,
     name |-> <<"R","h","i","n","o","c","e","r","o","s">>],
    [line |-> 343, any |-> <<<<"h","i","p","p","o","p","o","t","a","m","u","s">>, <<"h","i","p","p","o">>>>, eq |-> <<>>, none |-> <<>>, title |-> FALSE,
     name |-> <<"H","i","p","p","o","p","o","t","a","m","u","s">>],
    [line |-> 345, any |-> <<<<"w","a","r","t","h","o","g">>>>, eq |-> <<>>, none |-> <<>>, title |-> FALSE,
     name |-> <<"W","a","r","t","h","o","g">>],
    [line |-> 349, any |-> <<<<"w","o","l","f">>, <<"g","r","a","y"," ","w","o","l","f">>, <<"g","r","e","y"," ","w","o","l","f">>, <<"a","r","c","t","i","c"," ","w","o","l","f">>, <<"r","e","d"," ","w","o","l","f">>>>, eq |-> <<>>, none |-> <<>>, title |-> FALSE,
     name |-> <<"W","o","l","f">>],
    [line |-> 351, any |-> <<<<"c","o","y","o","t","e">>>>, eq |-> <<>>, none |-> <<>>, title |-> FALSE,
     name |-> <<"C","o","y","o","t","e">>],
    [line |-> 353, any |-> <<<<"j","a","c","k","a","l">>>>, eq |-> <<>>, none |-> <<>>, title |-> FALSE,
     name |-> <<"J","a","c","k","a","l">>],
    [line |-> 355, any |-> <<<<"f","o","x">>, <<"r","e","d"," ","f","o","x">>, <<"a","r","c","t","i","c"," ","f","o","x">>, <<"f","e","n","n","e","c">>, <<"k","i","t"," ","f","o","x">>, <<"g","r","e","y"," ","f","o","x">>>>, eq |-> <<>>, none |-> <<>>, title |-> FALSE,
     name |-> <<"F","o","x">>],
    [line |-> 359, any |-> <<<<"t","i","g","e","r">>, <<"b","e","n","g","a","l">>, <<"s","i","b","e","r","i","a","n">>, <<"a","m","u","r"," ","t","i","g","e","r">>>>, eq |-> <<>>, none |-> <<>>, title |-> FALSE,
     name |-> <<"T","i","g","e","r">>],
    [line |-> 361, any |-> <<<<"l","i","o","n">>, <<"a","f","r","i","c","a","n"," ","l","i","o","n">>, <<"a","s","i","a","n"," ","l","i","o","n">>>>, eq |-> <<>>, none |-> <<>>, title |-> FALSE,
     name |-> <<"L","i","o","n">>],
    [line |-> 363, any |-> <<<<"l","e","o","p","a","r","d">>, <<"c","l","o","u","d","e","d"," ","l","e","o","p","a","r","d">>, <<"a","m","u","r"," ","l","e","o","p","a","r","d">>, <<"a","f","r","i","c","a","n"," ","l","e","o","p","a","r","d">>>>, eq |-> <<>>, none |-> <<>>, title |-> FALSE,
     name |-> <<"L","e","o","p","a","r","d">>],
    [line |-> 365, any |-> <<<<"c","h","e","e","t","a","h">>>>, eq |-> <<>>, none |-> <<>>, title |-> FALSE,
     name |-> <<"C","h","e","e","t","a","h">>],
    [line |-> 367, any |-> <<<<"s","n","o","w"," ","l","e","o","p","a","r","d">>, <<"i","r","b","i","s">>>>, eq |-> <<>>, none |-> <<>>, title |-> FALSE,
     name |-> <<"S","n","o","w"," ","L","e","o","p","a","r","d">>],
    [line |-> 369, any |-> <<<<"j","a","g","u","a","r">>>>, eq |-> <<>>, none |-> <<>>, title |-> FALSE,
     name |-> <<"J","a","g","u","a","r">>],
    [line |-> 371, any |-> <<<<"c","o","u","g","a","r">>, <<"m","o","u","n","t","a","i","n"," ","l","i","o","n">>, <<"p","u","m","a">>, <<"p","a","n","t","h","e","r">>>>, eq |-> <<>>, none |-> <<>>, title |-> FALSE,
     name |-> <<"C","o","u","g","a","r">>],
    [line |-> 373, any |-> <<<<"l","y","n","x">>>>, eq |-> <<>>, none |-> <<>>, title |-> FALSE,
     name |-> <<"L","y","n","x">>],
    [line |-> 375, any |-> <<<<"o","c","e","l","o","t">>>>, eq |-> <<>>, none |-> <<>>, title |-> FALSE,
     name |-> <<"O","c","e","l","o","t">>],
    [line |-> 377, any |-> <<<<"c","a","r","a","c","a","l">>>>, eq |-> <<>>, none |-> <<>>, title |-> FALSE,
     name |-> <<"C","a","r","a","c","a","l">>],
    [line |-> 379, any |-> <<<<"s","e","r","v","a","l">>>>, eq |-> <<>>, none |-> <<>>, title |-> FALSE,
     name |-> <<"S","e","r","v","a","l">>],
    [line |-> 381, any |-> <<<<"b","i","n","t","u","r","o","n","g">>>>, eq |-> <<>>, none |-> <<>>, title |-> FALSE,
     name |-> <<"B","i","n","t","u","r","o","n","g">>],
    [line |-> 385, any |-> <<<<"o","r","a","n","g","u","t","a","n">>, <<"o","r","a","n","g","-","u","t","a","n">>, <<"o","r","a","n","g"," ","u","t","a","n">>>>, eq |-> <<>>, none |-> <<>>, title |-> FALSE,
     name |-> <<"O","r","a","n","g","u","t","a","n">>],
    [line |-> 387, any |-> <<<<"g","o","r","i","l","l","a">>, <<"l","o","w","l","a","n","d">>, <<"m","o","u","n","t","a","i","n"," ","g","o","r","i","l","l","a">>, <<"w","e","s","t","e","r","n">>>>, eq |-> <<>>, none |-> <<>>, title |-> FALSE,
     name |-> <<"G","o","r","i","l","l","a">>],
    [line |-> 389, any |-> <<<<"c","h","i","m","p","a","n","z","e","e">>, <<"c","h","i","m","p">>, <<"p","a","n"," ","t","r","o","g","l","o","d","y","t","e","s">>>>, eq |-> <<>>, none |-> <<>>, title |-> FALSE,
     name |-> <<"C","h","i","m","p","a","n","z","e","e">>],
    [line |-> 391, any |-> <<<<"g","i","b","b","o","n">>, <<"s","i","a","m","a","n","g">>, <<"l","a","r"," ","g","i","b","b","o","n">>, <<"w","h","i","t","e","-","h","a","n","d","e","d">>>>, eq |-> <<>>, none |-> <<>>, title |-> FALSE,
     name |-> <<"G","i","b","b","o","n">>],
    [line |-> 393, any |-> <<<<"b","a","b","o","o","n">>, <<"h","a","m","a","d","r","y","a","s">>, <<"m","a","n","d","r","i","l","l">>, <<"d","r","i","l","l">>>>, eq |-> <<>>, none |-> <<>>, title |-> FALSE,
     name |-> <<"B","a","b","o","o","n">>],
    [line |-> 395, any |-> <<<<"m","o","n","k","e","y">>, <<"m","a","c","a","q","u","e">>, <<"r","h","e","s","u","s">>, <<"v","e","r","v","e","t">>, <<"l","a","n","g","u","r">>, <<"c","o","l","o","b","u","s">>, <<"g","u","e","n","o","n">>, <<"m","a","n","g","a","b","e","y">>, <<"c","a","p","u","c","h","i","n">>, <<"h","o","w","l","e","r">>, <<"s","p","i","d","e","r">>, <<"s","q","u","i","r","r","e","l">>, <<"m","a","r","m","o","s","e","t">>, <<"t","a","m","a","r","i","n">>>>, eq |-> <<>>, none |-> <<>>, title |-> FALSE,
     name |-> <<"M","o","n","k","e","y">>],
    [line |-> 399, any |-> <<<<"l","e","m","u","r">>, <<"r","i","n","g","-","t","a","i","l","e","d">>, <<"l","e","m","u","r","e">>, <<"r","i","n","g","t","a","i","l">>>>, eq |-> <<>>, none |-> <<>>, title |-> FALSE,
     name |-> <<"L","e","m","u","r">>],
    [line |-> 401, any |-> <<<<"a","y","e","-","a","y","e">>, <<"a","y","e"," ","a","y","e">>>>, eq |-> <<>>, none |-> <<>>, title |-> FALSE,
     name |-> <<"A","y","e","-","A","y","e">>],
    [line |-> 403, any |-> <<<<"t","a","r","s","i","e","r">>, <<"t","a","r","s","i","u","s">>>>, eq |-> <<>>, none |-> <<>>, title |-> FALSE,
     name |-> <<"T","a","r","s","i","e","r">>],
    [line |-> 405, any |-> <<<<"l","o","r","i","s">>, <<"s","l","o","w"," ","l","o","r","i","s">>, <<"s","l","e","n","d","e","r"," ","l","o","r","i","s">>>>, eq |-> <<>>, none |-> <<>>, title |-> FALSE,
     name |-> <<"L","o","r","i","s">>],
    [line |-> 407, any |-> <<<<"g","a","l","a","g","o">>, <<"b","u","s","h","b","a","b","y">>, <<"b","u","s","h"," ","b","a","b","y">>>>, eq |-> <<>>, none |-> <<>>, title |-> FALSE,
     name |-> <<"G","a","l","a","g","o">>],
    [line |-> 411, any |-> <<<<"h","y","e","n","a">>, <<"h","y","a","e","n","a">>>>, eq |-> <<>>, none |-> <<>>, title |-> FALSE,
     name |-> <<"H","y","e","n","a">>],
    [line |-> 415, any |-> <<<<"p","y","t","h","o","n">>, <<"b","a","l","l"," ","p","y","t","h","o","n">>, <<"r","e","t","i","c","u","l","a","t","e","d">>, <<"b","u","r","m","e","s","e">>>>, eq |-> <<>>, none |-> <<>>, title |-> FALSE,
     name |-> <<"P","y","t","h","o","n">>],
    [line |-> 417, any |-> <<<<"c","o","b","r","a">>, <<"k","i","n","g"," ","c","o","b","r","a">>, <<"i","n","d","i","a","n"," ","c","o","b","r","a">>, <<"b","l","a","c","k"," ","c","o","b","r","a">>>>, eq |-> <<>>, none |-> <<>>, title |-> FALSE,
     name |-> <<"C","o","b","r","a">>],
    [line |-> 419, any |-> <<<<"m","a","m","b","a">>, <<"g","r","e","e","n"," ","m","a","m","b","a">>, <<"b","l","a","c","k"," ","m","a","m","b","a">>>>, eq |-> <<>>, none |-> <<>>, title |-> FALSE,
     name |-> <<"M","a","m","b","a">>],
    [line |-> 421, any |-> <<<<"b","o","a">>, <<"b","o","a"," ","c","o","n","s","t","r","i","c","t","o","r">>, <<"a","n","a","c","o","n","d","a">>>>, eq |-> <<>>, none |-> <<>>, title |-> FALSE,
     name |-> <<"B","o","a"," ","C","o","n","s","t","r","i","c","t","o","r">>],
    [line |-> 423, any |-> <<<<"r","a","t","t","l","e","s","n","a","k","e">>, <<"d","i","a","m","o","n","d","b","a","c","k">>, <<"s","i","d","e","w","i","n","d","e","r">>>>, eq |-> <<>>, none |-> <<>>, title |-> FALSE,
     name |-> <<"R","a","t","t","l","e","s","n","a","k","e">>],
    [line |-> 425, any |-> <<<<"v","i","p","e","r">>, <<"p","i","t"," ","v","i","p","e","r">>, <<"h","o","r","n","e","d"," ","v","i","p","e","r">>>>, eq |-> <<>>, none |-> <<>>, title |-> FALSE,
     name |-> <<"V","i","p","e","r">>],
    [line |-> 427, any |-> <<<<"s","e","a"," ","s","n","a","k","e">>, <<"s","e","a"," ","k","r","a","i","t">>, <<"k","r","a","i","t">>>>, eq |-> <<>>, none |-> <<>>, title |-> FALSE,
     name |-> <<"S","e","a"," ","S","n","a","k","e">>],
    [line |-> 429, any |-> <<<<"c","o","r","n"," ","s","n","a","k","e">>, <<"m","i","l","k"," ","s","n","a","k","e">>, <<"k","i","n","g"," ","s","n","a","k","e">>, <<"w","a","t","e","r"," ","s","n","a","k","e">>, <<"g","a","r","t","e","r">>>>, eq |-> <<>>, none |-> <<>>, title |-> FALSE,
     name |-> <<"S","n","a","k","e">>],
    [line |-> 433, any |-> <<<<"k","o","m","o","d","o">>>>, eq |-> <<>>, none |-> <<>>, title |-> FALSE,
     name |-> <<"K","o","m","o","d","o"," ","D","r","a","g","o","n">>],
    [line |-> 435, any |-> <<<<"m","o","n","i","t","o","r">>, <<"m","o","n","i","t","o","r"," ","l","i","z","a","r","d">>, <<"n","i","l","e"," ","m","o","n","i","t","o","r">>>>, eq |-> <<>>, none |-> <<>>, title |-> FALSE,
     name |-> <<"M","o","n","i","t","o","r"," ","L","i","z","a","r","d">>],
    [line |-> 437, any |-> <<<<"i","g","u","a","n","a">>, <<"g","r","e","e","n"," ","i","g","u","a","n","a">>, <<"c","o","m","m","o","n"," ","i","g","u","a","n","a">>>>, eq |-> <<>>, none |-> <<>>, title |-> FALSE,
     name |-> <<"I","g","u","a","n","a">>],
    [line |-> 439, any |-> <<<<"c","h","a","m","e","l","e","o","n">>, <<"v","e","i","l","e","d">>, <<"p","a","n","t","h","e","r">>, <<"j","a","c","k","s","o","n">>, <<"c","r","e","s","t","e","d">>>>, eq |-> <<>>, none |-> <<>>, title |-> FALSE,
     name |-> <<"C","h","a","m","e","l","e","o","n">>],
    [line |-> 441, any |-> <<<<"g","e","c","k","o">>, <<"l","e","o","p","a","r","d"," ","g","e","c","k","o">>, <<"d","a","y"," ","g","e","c","k","o">>, <<"c","r","e","s","t","e","d"," ","g","e","c","k","o">>>>, eq |-> <<>>, none |-> <<>>, title |-> FALSE,
     name |-> <<"G","e","c","k","o">>],
    [line |-> 443, any |-> <<<<"f","r","i","l","l","e","d">>>>, eq |-> <<>>, none |-> <<>>, title |-> FALSE,
     name |-> <<"F","r","i","l","l","e","d"," ","L","i","z","a","r","d">>],
    [line |-> 445, any |-> <<<<"g","i","l","a"," ","m","o","n","s","t","e","r">>>>, eq |-> <<>>, none |-> <<>>, title |-> FALSE,
     name |-> <<"G","i","l","a"," ","M","o","n","s","t","e","r">>],
    [line |-> 447, any |-> <<<<"b","a","s","i","l","i","s","k">>>>, eq |-> <<>>, none |-> <<>>, title |-> FALSE,
     name |-> <<"B","a","s","i","l","i","s","k">>],
    [line |-> 451, any |-> <<<<"t","o","r","t","o","i","s","e">>, <<"g","i","a","n","t"," ","t","o","r","t","o","i","s","e">>, <<"g","a","l","a","p","a","g","o","s">>, <<"a","l","d","a","b","r","a">>>>, eq |-> <<>>, none |-> <<>>, title |-> FALSE,
     name |-> <<"T","o","r","t","o","i","s","e">>],
    [line |-> 453, any |-> <<<<"s","e","a"," ","t","u","r","t","l","e">>, <<"g","r","e","e","n"," ","s","e","a"," ","t","u","r","t","l","e">>, <<"l","o","g","g","e","r","h","e","a","d">>, <<"h","a","w","k","s","b","i","l","l">>, <<"l","e","a","t","h","e","r","b","a","c","k">>, <<"o","l","i","v","e"," ","r","i","d","l","e","y">>>>, eq |-> <<>>, none |-> <<>>, title |-> FALSE,
     name |-> <<"S","e","a"," ","T","u","r","t","l","e">>],
    [line |-> 455, any |-> <<<<"t","u","r","t","l","e">>, <<"b","o","x"," ","t","u","r","t","l","e">>, <<"p","a","i","n","t","e","d">>, <<"s","l","i","d","e","r">>, <<"s","n","a","p","p","i","n","g">>>>, eq |-> <<>>, none |-> <<>>, title |-> FALSE,
     name |-> <<"T","u","r","t","l","e">>],
    [line |-> 457, any |-> <<<<"c","r","o","c","o","d","i","l","e">>, <<"n","i","l","e">>, <<"s","a","l","t","w","a","t","e","r">>, <<"s","a","l","t","i","e">>, <<"a","m","e","r","i","c","a","n"," ","c","r","o","c","o","d","i","l","e">>>>, eq |-> <<>>, none |-> <<>>, title |-> FALSE,
     name |-> <<"C","r","o","c","o","d","i","l","e">>],
    [line |-> 459, any |-> <<<<"a","l","l","i","g","a","t","o","r">>, <<"a","m","e","r","i","c","a","n"," ","a","l","l","i","g","a","t","o","r">>, <<"g","a","t","o","r">>>>, eq |-> <<>>, none |-> <<>>, title |-> FALSE,
     name |-> <<"A","l","l","i","g","a","t","o","r">>],
    [line |-> 461, any |-> <<<<"c","a","i","m","a","n">>, <<"s","p","e","c","t","a","c","l","e","d">>, <<"b","l","a","c","k"," ","c","a","i","m","a","n">>>>, eq |-> <<>>, none |-> <<>>, title |-> FALSE,
     name |-> <<"C","a","i","m","a","n">>],
    [line |-> 463, any |-> <<<<"g","h","a","r","i","a","l">>, <<"f","a","l","s","e"," ","g","h","a","r","i","a","l">>>>, eq |-> <<>>, none |-> <<>>, title |-> FALSE,
     name |-> <<"G","h","a","r","i","a","l">>],
    [line |-> 467, any |-> <<<<"p","o","i","s","o","n"," ","d","a","r","t">>, <<"p","o","i","s","o","n"," ","f","r","o","g">>, <<"d","a","r","t"," ","f","r","o","g">>>>, eq |-> <<>>, none |-> <<>>, title |-> FALSE,
     name |-> <<"P","o","i","s","o","n"," ","D","a","r","t"," ","F","r","o","g">>],
    [line |-> 469, any |-> <<<<"t","r","e","e"," ","f","r","o","g">>, <<"r","e","d","-","e","y","e","d">>>>, eq |-> <<>>, none |-> <<>>, title |-> FALSE,
     name |-> <<"T","r","e","e"," ","F","r","o","g">>],
    [line |-> 471, any |-> <<<<"b","u","l","l","f","r","o","g">>, <<"a","m","e","r","i","c","a","n"," ","b","u","l","l","f","r","o","g">>>>, eq |-> <<>>, none |-> <<>>, title |-> FALSE,
     name |-> <<"B","u","l","l","f","r","o","g">>],
    [line |-> 473, any |-> <<<<"f","r","o","g">>, <<"l","e","o","p","a","r","d"," ","f","r","o","g">>, <<"g","r","e","e","n"," ","f","r","o","g">>, <<"c","h","o","r","u","s">>, <<"s","p","r","i","n","g"," ","p","e","e","p","e","r">>>>, eq |-> <<>>, none |-> <<>>, title |-> FALSE,
     name |-> <<"F","r","o","g">>],
    [line |-> 475, any |-> <<<<"t","o","a","d">>, <<"c","a","n","e"," ","t","o","a","d">>, <<"b","u","f","o">>, <<"t","r","u","e"," ","t","o","a","d">>>>, eq |-> <<>>, none |-> <<>>, title |-> FALSE,
     name |-> <<"T","o","a","d">>],
    [line |-> 477, any |-> <<<<"a","x","o","l","o","t","l">>>>, eq |-> <<>>, none |-> <<>>, title |-> FALSE,
     name |-> <<"A","x","o","l","o","t","l">>],
    [line |-> 479, any |-> <<<<"s","a","l","a","m","a","n","d","e","r">>, <<"t","i","g","e","r"," ","s","a","l","a","m","a","n","d","e","r">>, <<"s","p","o","t","t","e","d">>, <<"f","i","r","e"," ","s","a","l","a","m","a","n","d","e","r">>, <<"e","u","r","o","p","e","a","n">>>>, eq |-> <<>>, none |-> <<>>, title |-> FALSE,
     name |-> <<"S","a","l","a","m","a","n","d","e","r">>],
    [line |-> 481, any |-> <<<<"n","e","w","t">>, <<"a","l","p","i","n","e">>, <<"s","m","o","o","t","h">>, <<"c","o","m","m","o","n"," ","n","e","w","t">>>>, eq |-> <<>>, none |-> <<>>, title |-> FALSE,
     name |-> <<"N","e","w","t">>],
    [line |-> 485, any |-> <<<<"w","h","a","l","e">>, <<"b","l","u","e"," ","w","h","a","l","e">>, <<"g","r","e","y"," ","w","h","a","l","e">>, <<"g","r","a","y"," ","w","h","a","l","e">>, <<"k","i","l","l","e","r"," ","w","h","a","l","e">>, <<"o","r","c","a">>, <<"h","u","m","p","b","a","c","k">>>>, eq |-> <<>>, none |-> <<>>, title |-> FALSE,
     name |-> <<"W","h","a","l","e">>],
    [line |-> 487, any |-> <<<<"d","o","l","p","h","i","n">>, <<"b","o","t","t","l","e","n","o","s","e">>, <<"s","p","i","n","n","e","r">>>>, eq |-> <<>>, none |-> <<>>, title |-> FALSE,
     name |-> <<"D","o","l","p","h","i","n">>],
    [line |-> 489, any |-> <<<<"s","e","a","l">>, <<"s","e","a"," ","l","i","o","n">>, <<"f","u","r"," ","s","e","a","l">>, <<"l","e","o","p","a","r","d"," ","s","e","a","l">>>>, eq |-> <<>>, none |-> <<>>, title |-> FALSE,
     name |-> <<"S","e","a","l">>],
    [line |-> 491, any |-> <<<<"w","a","l","r","u","s">>>>, eq |-> <<>>, none |-> <<>>, title |-> FALSE,
     name |-> <<"W","a","l","r","u","s">>],
    [line |-> 493, any |-> <<<<"o","t","t","e","r">>, <<"s","e","a"," ","o","t","t","e","r">>, <<"r","i","v","e","r"," ","o","t","t","e","r">>>>, eq |-> <<>>, none |-> <<>>, title |-> FALSE,
     name |-> <<"O","t","t","e","r">>],
    [line |-> 495, any |-> <<<<"m","a","n","a","t","e","e">>, <<"d","u","g","o","n","g">>, <<"s","e","a"," ","c","o","w">>>>, eq |-> <<>>, none |-> <<>>, title |-> FALSE,
     name |-> <<"M","a","n","a","t","e","e">>],
    [line |-> 497, any |-> <<<<"n","a","r","w","h","a","l">>>>, eq |-> <<>>, none |-> <<>>, title |-> FALSE,
     name |-> <<"N","a","r","w","h","a","l">>],
    [line |-> 499, any |-> <<<<"b","e","l","u","g","a">>>>, eq |-> <<>>, none |-> <<>>, title |-> FALSE,
     name |-> <<"B","e","l","u","g","a">>],
    [line |-> 503, any |-> <<<<"z","e","b","r","a">>, <<"p","l","a","i","n","s">>, <<"m","o","u","n","t","a","i","n"," ","z","e","b","r","a">>, <<"g","r","e","v","y">>>>, eq |-> <<>>, none |-> <<>>, title |-> FALSE,
     name |-> <<"Z","e","b","r","a">>],
    [line |-> 505, any |-> <<<<"g","i","r","a","f","f","e">>>>, eq |-> <<>>, none |-> <<>>, title |-> FALSE,
     name |-> <<"G","i","r","a","f","f","e">>],
    [line |-> 507, any |-> <<<<"o","k","a","p","i">>>>, eq |-> <<>>, none |-> <<>>, title |-> FALSE,
     name |-> <<"O","k","a","p","i">>],
    [line |-> 509, any |-> <<<<"h","i","p","p","o","p","o","t","a","m","u","s">>, <<"h","i","p","p","o">>>>, eq |-> <<>>, none |-> <<>>, title |-> FALSE,
     name |-> <<"H","i","p","p","o","p","o","t","a","m","u","s">>],
    [line |-> 511, any |-> <<<<"r","h","i","n","o","c","e","r","o","s">>, <<"r","h","i","n","o">>, <<"w","h","i","t","e"," ","r","h","i","n","o">>, <<"b","l","a","c","k"," ","r","h","i","n","o">>, <<"s","u","m","a","t","r","a","n">>>>, eq |-> <<>>, none |-> <<>>, title |-> FALSE,
     name |-> <<"R","h","i","n","o","c","e","r","o","s">>],
    [line |-> 513, any |-> <<<<"d","e","e","r">>, <<"r","e","d"," ","d","e","e","r">>, <<"m","u","l","e"," ","d","e","e","r">>, <<"s","i","k","a">>>>, eq |-> <<>>, none |-> <<>>, title |-> FALSE,
     name |-> <<"D","e","e","r">>],
    [line |-> 515, any |-> <<<<"e","l","k">>, <<"m","o","o","s","e">>>>, eq |-> <<>>, none |-> <<>>, title |-> FALSE,
     name |-> <<"E","l","k">>],
    [line |-> 517, any |-> <<<<"r","e","i","n","d","e","e","r">>, <<"c","a","r","i","b","o","u">>>>, eq |-> <<>>, none |-> <<>>, title |-> FALSE,
     name |-> <<"R","e","i","n","d","e","e","r">>],
    [line |-> 519, any |-> <<<<"a","n","t","e","l","o","p","e">>, <<"p","r","o","n","g","h","o","r","n">>, <<"g","a","z","e","l","l","e">>, <<"s","p","r","i","n","g","b","o","k">>, <<"i","m","p","a","l","a">>, <<"k","u","d","u">>>>, eq |-> <<>>, none |-> <<>>, title |-> FALSE,
     name |-> <<"A","n","t","e","l","o","p","e">>],
    [line |-> 521, any |-> <<<<"e","l","a","n","d">>, <<"w","i","l","d","e","b","e","e","s","t">>, <<"g","n","u">>, <<"n","y","a","l","a">>, <<"o","r","y","x">>, <<"a","d","d","a","x">>>>, eq |-> <<>>, none |-> <<>>, title |-> FALSE,
     name |-> <<"W","i","l","d","e","b","e","e","s","t">>],
    [line |-> 523, any |-> <<<<"g","e","m","s","b","u","c","k">>, <<"w","a","t","e","r","b","u","c","k">>, <<"b","u","s","h","b","u","c","k">>, <<"d","u","i","k","e","r">>>>, eq |-> <<>>, none |-> <<>>, title |-> FALSE,
     name |-> <<"A","f","r","i","c","a","n"," ","U","n","g","u","l","a","t","e">>],
    [line |-> 525, any |-> <<<<"b","u","f","f","a","l","o">>, <<"w","a","t","e","r"," ","b","u","f","f","a","l","o">>>>, eq |-> <<>>, none |-> <<>>, title |-> FALSE,
     name |-> <<"B","u","f","f","a","l","o">>],
    [line |-> 527, any |-> <<<<"b","i","s","o","n">>, <<"a","m","e","r","i","c","a","n"," ","b","i","s","o","n">>, <<"e","u","r","o","p","e","a","n">>>>, eq |-> <<>>, none |-> <<>>, title |-> FALSE,
     name |-> <<"B","i","s","o","n">>],
    [line |-> 529, any |-> <<<<"c","a","m","e","l">>, <<"d","r","o","m","e","d","a","r","y">>, <<"a","r","a","b","i","a","n">>, <<"b","a","c","t","r","i","a","n">>>>, eq |-> <<>>, none |-> <<>>, title |-> FALSE,
     name |-> <<"C","a","m","e","l">>],
    [line |-> 531, any |-> <<<<"l","l","a","m","a">>, <<"a","l","p","a","c","a">>, <<"g","u","a","n","a","c","o">>, <<"v","i","c","u","n","a">>>>, eq |-> <<>>, none |-> <<>>, title |-> FALSE,
     name |-> <<"L","l","a","m","a">>],
    [line |-> 533, any |-> <<<<"s","h","e","e","p">>, <<"l","a","m","b">>, <<"r","a","m">>, <<"b","i","g","h","o","r","n">>>>, eq |-> <<>>, none |-> <<>>, title |-> FALSE,
     name |-> <<"S","h","e","e","p">>],
    [line |-> 535, any |-> <<<<"g","o","a","t">>, <<"k","i","d">>, <<"m","o","u","n","t","a","i","n"," ","g","o","a","t">>, <<"i","b","e","x">>>>, eq |-> <<>>, none |-> <<>>, title |-> FALSE,
     name |-> <<"G","o","a","t">>],
    [line |-> 537, any |-> <<<<"h","o","r","s","e">>, <<"p","o","n","y">>, <<"m","a","r","e">>, <<"s","t","a","l","l","i","o","n">>, <<"c","o","l","t">>, <<"f","o","a","l">>>>, eq |-> <<>>, none |-> <<>>, title |-> FALSE,
     name |-> <<"H","o","r","s","e">>],
    [line |-> 539, any |-> <<<<"d","o","n","k","e","y">>, <<"m","u","l","e">>, <<"a","s","s">>>>, eq |-> <<>>, none |-> <<>>, title |-> FALSE,
     name |-> <<"D","o","n","k","e","y">>],
    [line |-> 541, any |-> <<<<"c","a","t","t","l","e">>, <<"c","o","w">>, <<"b","u","l","l">>, <<"o","x">>, <<"h","o","l","s","t","e","i","n">>, <<"h","e","r","e","f","o","r","d">>>>, eq |-> <<>>, none |-> <<>>, title |-> FALSE,
     name |-> <<"C","o","w">>],
    [line |-> 543, any |-> <<<<"p","i","g">>, <<"h","o","g">>, <<"w","i","l","d"," ","b","o","a","r">>, <<"b","a","b","i","r","u","s","a">>, <<"p","e","c","c","a","r","y">>, <<"j","a","v","e","l","i","n","a">>>>, eq |-> <<>>, none |-> <<>>, title |-> FALSE,
     name |-> <<"P","i","g">>],
    [line |-> 545, any |-> <<<<"y","a","k">>, <<"m","u","s","k"," ","o","x">>, <<"t","a","k","i","n">>>>, eq |-> <<>>, none |-> <<>>, title |-> TRUE,
     name |-> <<>>],
    [line |-> 549, any |-> <<<<"a","a","r","d","v","a","r","k">>>>, eq |-> <<>>, none |-> <<>>, title |-> FALSE,
     name |-> <<"A","a","r","d","v","a","r","k">>],
    [line |-> 551, any |-> <<<<"a","n","t","e","a","t","e","r">>, <<"a","n","t"," ","e","a","t","e","r">>>>, eq |-> <<>>, none |-> <<>>, title |-> FALSE,
     name |-> <<"A","n","t","e","a","t","e","r">>],
    [line |-> 553, any |-> <<<<"p","a","n","g","o","l","i","n">>>>, eq |-> <<>>, none |-> <<>>, title |-> FALSE,
     name |-> <<"P","a","n","g","o","l","i","n">>],
    [line |-> 555, any |-> <<<<"h","e","d","g","e","h","o","g">>>>, eq |-> <<>>, none |-> <<>>, title |-> FALSE,
     name |-> <<"H","e","d","g","e","h","o","g">>],
    [line |-> 557, any |-> <<<<"h","y","r","a","x">>, <<"r","o","c","k"," ","h","y","r","a","x">>, <<"t","r","e","e"," ","h","y","r","a","x">>>>, eq |-> <<>>, none |-> <<>>, title |-> FALSE,
     name |-> <<"H","y","r","a","x">>],
    [line |-> 559, any |-> <<<<"c","a","p","y","b","a","r","a">>, <<"l","a","r","g","e","s","t"," ","r","o","d","e","n","t">>>>, eq |-> <<>>, none |-> <<>>, title |-> FALSE,
     name |-> <<"C","a","p","y","b","a","r","a">>],
    [line |-> 561, any |-> <<<<"p","a","c","a">>, <<"a","g","o","u","t","i">>>>, eq |-> <<>>, none |-> <<>>, title |-> TRUE,
     name |-> <<>>],
    [line |-> 563, any |-> <<<<"q","u","o","k","k","a">>>>, eq |-> <<>>, none |-> <<>>, title |-> FALSE,
     name |-> <<"Q","u","o","k","k","a">>],
    [line |-> 565, any |-> <<<<"n","u","m","b","a","t">>>>, eq |-> <<>>, none |-> <<>>, title |-> FALSE,
     name |-> <<"N","u","m","b","a","t">>],
    [line |-> 567, any |-> <<<<"t","a","s","m","a","n","i","a","n"," ","d","e","v","i","l">>, <<"t","a","s","m","a","n","i","a","n">>>>, eq |-> <<>>, none |-> <<>>, title |-> FALSE,
     name |-> <<"T","a","s","m","a","n","i","a","n"," ","D","e","v","i","l">>],
    [line |-> 569, any |-> <<<<"s","u","g","a","r"," ","g","l","i","d","e","r">>, <<"f","e","a","t","h","e","r","t","a","i","l">>>>, eq |-> <<>>, none |-> <<>>, title |-> FALSE,
     name |-> <<"S","u","g","a","r"," ","G","l","i","d","e","r">>],
    [line |-> 571, any |-> <<<<"p","l","a","t","y","p","u","s">>>>, eq |-> <<>>, none |-> <<>>, title |-> FALSE,
     name |-> <<"P","l","a","t","y","p","u","s">>],
    [line |-> 573, any |-> <<<<"e","c","h","i","d","n","a">>>>, eq |-> <<>>, none |-> <<>>, title |-> FALSE,
     name |-> <<"E","c","h","i","d","n","a">>],
    [line |-> 575, any |-> <<<<"t","r","e","e"," ","s","h","r","e","w">>, <<"t","u","p","a","i","a">>>>, eq |-> <<>>, none |-> <<>>, title |-> FALSE,
     name |-> <<"T","r","e","e"," ","S","h","r","e","w">>],
    [line |-> 577, any |-> <<<<"c","o","l","u","g","o">>, <<"f","l","y","i","n","g"," ","l","e","m","u","r">>, <<"f","l","y","i","n","g"," ","d","r","a","g","o","n">>>>, eq |-> <<>>, none |-> <<>>, title |-> FALSE,
     name |-> <<"C","o","l","u","g","o">>],
    [line |-> 579, any |-> <<<<"e","m","u">>, <<"c","a","s","s","o","w","a","r","y">>, <<"k","i","w","i">>, <<"r","h","e","a">>>>, eq |-> <<>>, none |-> <<>>, title |-> FALSE,
     name |-> <<"B","i","r","d">>],
    [line |-> 583, any |-> <<<<"r","a","c","c","o","o","n">>>>, eq |-> <<>>, none |-> <<>>, title |-> FALSE,
     name |-> <<"R","a","c","c","o","o","n">>],
    [line |-> 585, any |-> <<<<"s","k","u","n","k">>>>, eq |-> <<>>, none |-> <<>>, title |-> FALSE,
     name |-> <<"S","k","u","n","k">>],
    [line |-> 587, any |-> <<<<"w","e","a","s","e","l">>>>, eq |-> <<>>, none |-> <<>>, title |-> FALSE,
     name |-> <<"W","e","a","s","e","l">>],
    [line |-> 589, any |-> <<<<"m","i","n","k">>>>, eq |-> <<>>, none |-> <<>>, title |-> FALSE,
     name |-> <<"M","i","n","k">>],
    [line |-> 591, any |-> <<<<"b","a","d","g","e","r">>, <<"h","o","n","e","y"," ","b","a","d","g","e","r">>>>, eq |-> <<>>, none |-> <<>>, title |-> FALSE,
     name |-> <<"B","a","d","g","e","r">>],
    [line |-> 593, any |-> <<<<"f","e","r","r","e","t">>, <<"p","o","l","e","c","a","t">>, <<"b","l","a","c","k","-","f","o","o","t","e","d"," ","f","e","r","r","e","t">>>>, eq |-> <<>>, none |-> <<>>, title |-> FALSE,
     name |-> <<"F","e","r","r","e","t">>],
    [line |-> 595, any |-> <<<<"r","a","b","b","i","t">>, <<"h","a","r","e">>>>, eq |-> <<>>, none |-> <<>>, title |-> FALSE,
     name |-> <<"R","a","b","b","i","t">>],
    [line |-> 597, any |-> <<<<"s","q","u","i","r","r","e","l">>>>, eq |-> <<>>, none |-> <<>>, title |-> FALSE,
     name |-> <<"S","q","u","i","r","r","e","l">>],
    [line |-> 599, any |-> <<<<"c","h","i","p","m","u","n","k">>>>, eq |-> <<>>, none |-> <<>>, title |-> FALSE,
     name |-> <<"C","h","i","p","m","u","n","k">>],
    [line |-> 601, any |-> <<<<"h","a","m","s","t","e","r">>>>, eq |-> <<>>, none |-> <<>>, title |-> FALSE,
     name |-> <<"H","a","m","s","t","e","r">>],
    [line |-> 603, any |-> <<<<"g","u","i","n","e","a"," ","p","i","g">>>>, eq |-> <<>>, none |-> <<>>, title |-> FALSE,
     name |-> <<"G","u","i","n","e","a"," ","P","i","g">>],
    [line |-> 605, any |-> <<<<"m","o","u","s","e">>>>, eq |-> <<>>, none |-> <<>>, title |-> FALSE,
     name |-> <<"M","o","u","s","e">>],
    [line |-> 607, any |-> <<<<"r","a","t">>>>, eq |-> <<>>, none |-> <<>>, title |-> FALSE,
     name |-> <<"R","a","t">>],
    [line |-> 609, any |-> <<<<"b","e","a","v","e","r">>>>, eq |-> <<>>, none |-> <<>>, title |-> FALSE,
     name |-> <<"B","e","a","v","e","r">>],
    [line |-> 611, any |-> <<<<"p","o","r","c","u","p","i","n","e">>>>, eq |-> <<>>, none |-> <<>>, title |-> FALSE,
     name |-> <<"P","o","r","c","u","p","i","n","e">>],
    [line |-> 613, any |-> <<<<"a","r","m","a","d","i","l","l","o">>>>, eq |-> <<>>, none |-> <<>>, title |-> FALSE,
     name |-> <<"A","r","m","a","d","i","l","l","o">>],
    [line |-> 615, any |-> <<<<"s","l","o","t","h">>>>, eq |-> <<>>, none |-> <<>>, title |-> FALSE,
     name |-> <<"S","l","o","t","h">>]
  >>

(***************************************************************************)
(* Text helpers: str.lower(), `kw in s`, str.title().                      *)
(***************************************************************************)
UpperCase == <<"A","B","C","D","E","F","G","H","I","J","K","L","M",
               "N","O","P","Q","R","S","T","U","V","W","X","Y","Z">>

LowerCase == <<"a","b","c","d","e","f","g","h","i","j","k","l","m",
               "n","o","p","q","r","s","t","u","v","w","x","y","z">>

IsUpper(ch) == \E i \in 1..26 : UpperCase[i] = ch

IsLower(ch) == \E i \in 1..26 : LowerCase[i] = ch

LowerChar(ch) == IF IsUpper(ch) THEN LowerCase[CHOOSE i \in 1..26 : UpperCase[i] = ch] ELSE ch

Lower(s) == [i \in 1..Len(s) |-> LowerChar(s[i])]

\* Python: any(keyword in s for keyword in kws)
AnyIn(kws, s) ==
  \E k \in 1..Len(kws) :
    \E i \in 1..(Len(s) - Len(kws[k]) + 1) : SubSeq(s, i, i + Len(kws[k]) - 1) = kws[k]

\* Python: s.title()
Title(s) ==
  [i \in 1..Len(s) |->
     IF i = 1 \/ ~(IsUpper(s[i-1]) \/ IsLower(s[i-1]))
       THEN (IF IsLower(s[i]) THEN UpperCase[CHOOSE k \in 1..26 : LowerCase[k] = s[i]]
             ELSE s[i])
       ELSE LowerChar(s[i])]


(***************************************************************************)
(* ImageClassifier: vocabulary predicates and the generalization map.      *)
(***************************************************************************)
animal_categories ==
  [dog |-> dog_labels, cat |-> cat_labels, bird |-> bird_labels,
   other_animal |-> other_animal_labels, non_animal |-> <<>>]

\* keyword.lower() of every keyword, per category
animal_categories_lower ==
  [c \in DOMAIN animal_categories |->
     [k \in 1..Len(animal_categories[c]) |-> Lower(animal_categories[c][k])]]

is_human(label) == AnyIn(human_keywords, Lower(label))

is_animal(label) ==
  LET label_lower == Lower(label) IN
    \/ \E c \in {"dog", "cat", "bird", "other_animal"} :
         AnyIn(animal_categories_lower[c], label_lower)
    \/ AnyIn(animal_keywords, label_lower)

RuleMatches(r, label_lower) ==
  /\ \/ AnyIn(r.any, label_lower)
     \/ r.eq # <<>> /\ label_lower = r.eq
  /\ ~AnyIn(r.none, label_lower)

\* a chain of rules in which the last matching rule decides
_generalize_last_match(specific_label) ==
  LET label_lower == Lower(specific_label)
      hits == {i \in 1..Len(generalization_rules) :
                 RuleMatches(generalization_rules[i], label_lower)}
  IN IF hits = {} THEN Title(specific_label)
     ELSE LET r == generalization_rules[CHOOSE i \in hits : \A j \in hits : j <= i]
          IN IF r.title THEN Title(label_lower) ELSE r.name

\* lines 218-619: the if-chain returns at the first condition that holds
_generalize_animal_label(specific_label) ==
  LET label_lower == Lower(specific_label)
      hits == {i \in 1..Len(generalization_rules) :
                 RuleMatches(generalization_rules[i], label_lower)}
  IN IF hits = {} THEN Title(specific_label)
     ELSE LET r == generalization_rules[CHOOSE i \in hits : \A j \in hits : i <= j]
          IN IF r.title THEN Title(label_lower) ELSE r.name

(***************************************************************************)
(* The classifier adapter.  all_labels is the class list; a probability    *)
(* vector is a function from class index to percent.                       *)
(***************************************************************************)
TopK == 5

MIN_CONFIDENCE_HUMAN == 10

\* an animal threshold as low as the human one
MIN_CONFIDENCE_ANIMAL_as_human == MIN_CONFIDENCE_HUMAN

MIN_CONFIDENCE_ANIMAL == 15

FALLBACK_MIN == 5

None == <<>>

extra_labels ==
  << <<"s","c","u","b","a"," ","d","i","v","e","r">>,
     <<"g","r","o","o","m">>,
     <<"d","e","s","k">>,
     <<"l","a","p","t","o","p">>,
     <<"t","e","d","d","y"," ","b","e","a","r">>,
     <<"t","a","b","l","e"," ","l","a","m","p">>,
     <<"b","o","o","k","c","a","s","e">> >>

all_labels ==
  extra_labels \o dog_labels \o cat_labels \o bird_labels \o other_animal_labels

Classes == 1..Len(all_labels)

MinOf(S) == CHOOSE i \in S : \A j \in S : i <= j

\* torch.topk(probabilities, k): indices of the k largest entries, largest
\* first (equal entries in index order)
RECURSIVE topk(_, _, _)
topk(probabilities, k, picked) ==
  IF k = 0 THEN <<>>
  ELSE LET support == {i \in DOMAIN probabilities : probabilities[i] > 0} \ picked
           best == IF support # {}
                     THEN MinOf({i \in support :
                                   \A j \in support : probabilities[j] <= probabilities[i]})
                     ELSE MinOf((1..(Cardinality(picked) + 1)) \ picked)
       IN <<best>> \o topk(probabilities, k - 1, picked \cup {best})

\* lines 674-695: the scan over the top-5 predictions
RECURSIVE top_scan(_, _, _, _)
top_scan(probabilities, top_cat_ids, i, st) ==
  IF i > Len(top_cat_ids) THEN st
  ELSE LET label == all_labels[top_cat_ids[i]]
           confidence == probabilities[top_cat_ids[i]]
           st2 == IF is_animal(label)
                    THEN IF confidence > st.best_confidence
                           THEN [st EXCEPT !.best_animal = label,
                                           !.best_confidence = confidence,
                                           !.best_label = label]
                           ELSE st
                  ELSE IF is_human(label)
                    THEN IF confidence > st.best_confidence
                           THEN [st EXCEPT !.best_human = label,
                                           !.best_confidence = confidence,
                                           !.best_label = label]
                           ELSE st
                  ELSE st
       IN top_scan(probabilities, top_cat_ids, i + 1, st2)

\* a scan over the whole vector that takes the most probable candidate
fallback_scan_most_probable(probabilities, st) ==
  IF ~(st.best_animal = None /\ st.best_human = None) THEN st
  ELSE LET cand == {idx \in DOMAIN probabilities :
                      /\ probabilities[idx] > FALLBACK_MIN
                      /\ is_animal(all_labels[idx]) \/ is_human(all_labels[idx])}
       IN IF cand = {} THEN st
          ELSE LET idx == MinOf({i \in cand : \A j \in cand :
                                   probabilities[j] <= probabilities[i]})
                   label == all_labels[idx]
               IN IF is_animal(label)
                    THEN [st EXCEPT !.best_animal = label,
                                    !.best_confidence = probabilities[idx],
                                    !.best_label = label]
                    ELSE [st EXCEPT !.best_human = label,
                                    !.best_confidence = probabilities[idx],
                                    !.best_label = label]

\* lines 697-712: the scan over the whole vector
fallback_scan(probabilities, st) ==
  IF ~(st.best_animal = None /\ st.best_human = None) THEN st
  ELSE LET cand == {idx \in DOMAIN probabilities :
                      /\ probabilities[idx] > FALLBACK_MIN
                      /\ is_animal(all_labels[idx]) \/ is_human(all_labels[idx])}
       IN IF cand = {} THEN st
          ELSE LET idx == MinOf(cand)
                   label == all_labels[idx]
               IN IF is_animal(label)
                    THEN [st EXCEPT !.best_animal = label,
                                    !.best_confidence = probabilities[idx],
                                    !.best_label = label]
                    ELSE [st EXCEPT !.best_human = label,
                                    !.best_confidence = probabilities[idx],
                                    !.best_label = label]

\* lines 727-738: the first of dog, cat, bird having a keyword inside the label
destination_of(best_animal) ==
  LET l == Lower(best_animal) IN
    IF AnyIn(animal_categories_lower["dog"], l) THEN "dog"
    ELSE IF AnyIn(animal_categories_lower["cat"], l) THEN "cat"
    ELSE IF AnyIn(animal_categories_lower["bird"], l) THEN "bird"
    ELSE "other_animal"

scan(probabilities) ==
  LET top_cat_ids == topk(probabilities, TopK, {})
      st0 == [best_animal |-> None, best_human |-> None,
              best_confidence |-> 0, best_label |-> <<>>]
  IN fallback_scan(probabilities, top_scan(probabilities, top_cat_ids, 1, st0))

\* a decision whose last branch keeps the confidence of the scan
resolve_keeps_scan_confidence(probabilities) ==
  LET st == scan(probabilities)
  IN IF st.best_animal # None /\ st.best_confidence >= MIN_CONFIDENCE_ANIMAL
       THEN [folder |-> destination_of(st.best_animal),
             label |-> _generalize_animal_label(st.best_animal),
             confidence |-> st.best_confidence]
     ELSE IF st.best_human # None /\ st.best_confidence >= MIN_CONFIDENCE_HUMAN
       THEN [folder |-> "non_animal",
             label |-> <<"H","u","m","a","n">>,
             confidence |-> st.best_confidence]
     ELSE [folder |-> "non_animal",
           label |-> <<"O","t","h","e","r">>,
           confidence |-> st.best_confidence]

\* lines 670-747: (destination_folder, detected_label, best_confidence)
resolve(probabilities) ==
  LET st == scan(probabilities)
      top1 == probabilities[topk(probabilities, 1, {})[1]]
  IN IF st.best_animal # None /\ st.best_confidence >= MIN_CONFIDENCE_ANIMAL
       THEN [folder |-> destination_of(st.best_animal),
             label |-> _generalize_animal_label(st.best_animal),
             confidence |-> st.best_confidence]
     ELSE IF st.best_human # None /\ st.best_confidence >= MIN_CONFIDENCE_HUMAN
       THEN [folder |-> "non_animal",
             label |-> <<"H","u","m","a","n">>,
             confidence |-> st.best_confidence]
     ELSE [folder |-> "non_animal",
           label |-> <<"O","t","h","e","r">>,
           confidence |-> top1]

(***************************************************************************)
(* Paths.  A path is a sequence of tokens: names, extensions and the       *)
(* separators "/" and "../".  Files are keyed by their resolved location.  *)
(***************************************************************************)
\* os.path.basename: what follows the last separator
RECURSIVE basename(_)
basename(path) ==
  IF path = <<>> \/ path[Len(path)] \in {"/", "../"} THEN <<>>
  ELSE Append(basename(SubSeq(path, 1, Len(path) - 1)), path[Len(path)])

\* str.replace('.jpg', '.json'): every occurrence
replace_jpg_json(path) ==
  [i \in 1..Len(path) |-> IF path[i] = ".jpg" THEN ".json" ELSE path[i]]

\* the file a path names, relative to the working directory: the directory
\* as a sequence of component names, and the file's name
RECURSIVE Walk(_, _, _)
Walk(path, dir, cur) ==
  IF path = <<>> THEN [dir |-> dir, name |-> cur]
  ELSE LET tok == Head(path)
           entered == IF cur = <<>> THEN dir ELSE Append(dir, cur)
       IN IF tok = "/" THEN Walk(Tail(path), entered, <<>>)
          ELSE IF tok = "../"
            THEN Walk(Tail(path),
                      IF entered = <<>> THEN << <<"..">> >>
                      ELSE SubSeq(entered, 1, Len(entered) - 1),
                      <<>>)
          ELSE Walk(Tail(path), dir, Append(cur, tok))

Locate(path) == Walk(path, <<>>, <<>>)

uploads_dir == << <<"uploads">> >>

gallery_base == <<"static", "/", "gallery">>

Buckets == {"dog", "cat", "bird", "other_animal", "non_animal", "error"}

bucket_dir(b) == << <<"static">>, <<"gallery">>, <<b>> >>

\* f"uploads/{filename}"
upload_path_of(filename) == <<"uploads", "/">> \o filename

\* f"{gallery_base}/{folder}/{filename}"
gallery_path_of(folder, name) == gallery_base \o <<"/", folder, "/">> \o name

(***************************************************************************)
(* File contents and the filesystem.                                       *)
(***************************************************************************)
ChunkBytes == 512

RecvSize == 4096

MinPayload == 1024

MaxChunks == 3

\* file contents; `by` is the connection whose worker wrote the file
RawFile(c, bytes) == [kind |-> "raw", by |-> c, bytes |-> bytes]

JpegFile(c, image) == [kind |-> "jpeg", by |-> c, image |-> image]

JsonFile(c, dict) == [kind |-> "json", by |-> c, dict |-> dict]

\* cv2.imwrite chooses the encoder by the extension of the path
imwrite_ok(path) == path # <<>> /\ path[Len(path)] = ".jpg"

Exists(files, loc) == loc \in DOMAIN files

\* open(path, 'x'): a file that exists is left as it is
WriteFile_exclusive(files, loc, content) ==
  [l \in DOMAIN files \cup {loc} |-> IF l \in DOMAIN files THEN files[l] ELSE content]

\* open(path, 'w'): what was there is replaced
WriteFile(files, loc, content) ==
  [l \in DOMAIN files \cup {loc} |-> IF l = loc THEN content ELSE files[l]]

RemoveFile(files, loc) == [l \in DOMAIN files \ {loc} |-> files[l]]

\* shutil.move / os.rename within one filesystem
MoveFile(files, src, dst) ==
  IF src = dst THEN files
  ELSE [l \in (DOMAIN files \ {src}) \cup {dst} |->
          IF l = dst THEN files[src] ELSE files[l]]

Subjects == {"dog", "cat", "junk"}

NoImage == [subject |-> "none"]

\* cv2.imread / PIL.Image.open: the image held by a file, or NoImage
Decode(content) ==
  IF content.kind = "jpeg" THEN content.image
  ELSE IF content.kind = "raw" /\ content.bytes # <<>> /\ content.bytes[1].subject # "junk"
    THEN [src |-> content.bytes[1].src, subject |-> content.bytes[1].subject,
          filter |-> "none"]
  ELSE NoImage

ImageOf(files, loc) == IF Exists(files, loc) THEN Decode(files[loc]) ELSE NoImage

\* image_filters.apply_filter: bw and vintage change the pixels, every
\* other id returns the image itself
apply_filter(image, filter_type) ==
  IF filter_type \in {"bw", "vintage"}
    THEN [image EXCEPT !.filter = filter_type]
    ELSE image

label_golden_retriever == <<"g","o","l","d","e","n"," ","r","e","t","r","i","e","v","e","r">>

label_tabby == <<"t","a","b","b","y">>

label_desk == <<"d","e","s","k">>

ClassIndex(label) == CHOOSE i \in Classes : all_labels[i] = label

\* the probability vector that is `hits` on the given classes and 0 elsewhere
Vec(hits) ==
  [i \in Classes |->
     IF \E h \in hits : h[1] = i THEN (CHOOSE h \in hits : h[1] = i)[2] ELSE 0]

\* the external model: softmax output for an image
model_output(image) ==
  IF image.subject = "dog"
    THEN Vec({<<ClassIndex(label_golden_retriever), 90>>, <<ClassIndex(label_desk), 5>>})
  ELSE IF image.subject = "cat"
    THEN Vec({<<ClassIndex(label_tabby), 80>>, <<ClassIndex(label_desk), 10>>})
  ELSE Vec({<<ClassIndex(label_desk), 60>>})

\* lines 661-747 for each photo the clients send: the model and the
\* vocabularies are fixed when the classifier is constructed
classifier_result ==
  [s \in Subjects \ {"junk"} |-> resolve(model_output([subject |-> s]))]

\* f"{confidence:.2%}" for a whole-percent confidence
RECURSIVE Digits(_)
Digits(n) ==
  LET d == <<"0","1","2","3","4","5","6","7","8","9">>[(n % 10) + 1]
  IN IF n < 10 THEN <<d>> ELSE Append(Digits(n \div 10), d)

format_percent(confidence) == Digits(confidence) \o <<".", "0", "0", "%">>

(***************************************************************************)
(* Clients and what they send.                                             *)
(***************************************************************************)
\* header lines: nothing before the newline, text that is not JSON, and
\* JSON objects with and without the optional fields and the filename
ValidDicts(names) ==
  {[filename |-> f] : f \in names}
    \cup {[filename |-> f, filter |-> "bw", filter_display |-> "Black & White"] :
            f \in names}

JsonLines(dicts) == {[enc |-> "json", obj |-> d] : d \in dicts}

HeaderLines ==
  {[enc |-> "empty"], [enc |-> "garbage"]}
    \cup JsonLines({[filter |-> "bw"]}
                    \cup ValidDicts({ <<"a", ".jpg">>, <<"b", ".jpg">>, <<"a", ".json">>,
                                     <<"../", "a", ".jpg">>, <<"/", "a", ".jpg">> }))

\* the ways of sending n chunks in bursts
RECURSIVE Bursts(_)
Bursts(n) ==
  IF n = 0 THEN {<<>>}
  ELSE UNION {{<<k>> \o rest : rest \in Bursts(n - k)} : k \in 1..n}

\* what a client is going to send: the header line, the photo, and the
\* bursts in which the body leaves the device
Plans(lines, subjects, bursts) ==
  {[line |-> l, subject |-> s, sends |-> b] :
     l \in lines, s \in subjects, b \in bursts}

\* json.loads(metadata_data.decode())
json_loads(line) ==
  IF line.enc = "json" THEN [ok |-> TRUE, obj |-> line.obj]
  ELSE [ok |-> FALSE, obj |-> [error |-> "JSONDecodeError"]]

\* a dict that answers every missing key with a default
getitem_default(dict, key) ==
  [ok |-> TRUE, value |-> IF key \in DOMAIN dict THEN dict[key] ELSE <<"photo", ".jpg">>]

\* dict[key]: the value, or KeyError
getitem(dict, key) ==
  IF key \in DOMAIN dict THEN [ok |-> TRUE, value |-> dict[key]]
  ELSE [ok |-> FALSE, value |-> <<>>]

\* dict.get(key, default)
get(dict, key, default) == IF key \in DOMAIN dict THEN dict[key] ELSE default

VARIABLES
  plan,     \* per connection: what its client sends
  server,   \* run(): "listening" or "stopped"
  pc,       \* per connection: position of its worker thread
  cli,      \* per connection: the client's progress
  net,      \* per connection: bytes sent and not yet received, in order
  sock,     \* per connection: the accepted socket, "open" or "closed"
  var,      \* per connection: the worker's local variables
  fs,       \* the filesystem: resolved location -> content
  called,   \* per connection: the stages the worker has invoked
  raised,   \* per connection: the exception raised in the worker, if any
  verdict,  \* per photo: what lines 661-747 make of the model's output
  probabilities,  \* the resolver alone: a softmax output
  resolution,     \* the resolver alone: what it returned for it
  page,           \* the web gallery: the response to the last request
  listener,       \* run(): the listening socket, "none", "open" or "closed"
  frame,          \* the filter alone: the image and the filter id it is given
  filtered,       \* the filter alone: what apply_filter made of them
  device          \* the capture device: the state of rdk_final.py

vars == <<plan, server, pc, cli, net, sock, var, fs, called, raised,
          verdict, probabilities, resolution, page, listener, frame, filtered, device>>

NoResolution == [folder |-> "", label |-> <<>>, confidence |-> 0]

\* no request has been served yet
NoPage == [route |-> "none"]

\* apply_filter has not been given anything
NoFrame == [filter_name |-> "none"]

\* apply_filter has not been called
NoOutcome == [raised |-> "not called"]

\* rdk_final.py is not running
NoDevice == [pc |-> "off"]

NoVars ==
  [filename |-> <<>>, filter_type |-> "", filter_display |-> "",
   image_data |-> <<>>, timed_out |-> FALSE, image |-> NoImage,
   result |-> NoResolution,
   new_path |-> <<>>]

\* the connections of a run, out of the identities there are
ConnIds == {1, 2}

Conns == DOMAIN plan

\* the clients have connected and sent nothing yet
InitWith(plans) ==
  /\ plan = plans
  /\ server = "listening"
  /\ pc = [c \in DOMAIN plans |-> "pending"]
  /\ cli = [c \in DOMAIN plans |-> [phase |-> "connected", line_sent |-> FALSE, bursts |-> 0, sent |-> 0]]
  /\ net = [c \in DOMAIN plans |-> <<>>]
  /\ sock = [c \in DOMAIN plans |-> "open"]
  /\ var = [c \in DOMAIN plans |-> NoVars]
  /\ fs = [l \in {} |-> NoImage]
  /\ called = [c \in DOMAIN plans |-> {}]
  /\ raised = [c \in DOMAIN plans |-> "none"]
  /\ verdict = classifier_result
  /\ probabilities = <<>>
  /\ resolution = NoResolution
  /\ page = NoPage
  /\ listener = "open"
  /\ frame = NoFrame
  /\ filtered = NoOutcome
  /\ device = NoDevice

\* one client, every header line, every photo, every way of sending it
Init ==
  \E p \in Plans(HeaderLines, Subjects, Bursts(MaxChunks)) :
    InitWith([c \in {1} |-> p])

(***************************************************************************)
(* The capture device, seen from the server.                               *)
(***************************************************************************)
client_send_header(c) ==
  /\ c \in Conns
  /\ cli[c].phase = "connected"
  /\ sock[c] = "open"
  /\ net' = [net EXCEPT ![c] = Append(@, [t |-> "line", text |-> plan[c].line])]
  /\ cli' = [cli EXCEPT ![c].phase = "body", ![c].line_sent = TRUE]
  /\ UNCHANGED <<plan, server, pc, sock, var, fs, called, raised, verdict, probabilities, resolution, page, listener, frame, filtered, device>>

\* chunks sent + 1 .. sent + k, in order
Chunks(c, sent, k) ==
  [i \in 1..k |-> [t |-> "data", src |-> c, subject |-> plan[c].subject,
                   n |-> sent + i]]

\* one send() of the device: the next burst of the body
client_send_chunk(c) ==
  /\ c \in Conns
  /\ cli[c].phase = "body"
  /\ sock[c] = "open"
  /\ cli[c].bursts < Len(plan[c].sends)
  /\ LET k == plan[c].sends[cli[c].bursts + 1]
     IN /\ net' = [net EXCEPT ![c] = @ \o Chunks(c, cli[c].sent, k)]
        /\ cli' = [cli EXCEPT ![c].bursts = @ + 1, ![c].sent = @ + k]
  /\ UNCHANGED <<plan, server, pc, sock, var, fs, called, raised, verdict, probabilities, resolution, page, listener, frame, filtered, device>>

client_close(c) ==
  /\ c \in Conns
  /\ cli[c].phase \in {"connected", "body"}
  /\ cli' = [cli EXCEPT ![c].phase = "closed"]
  /\ UNCHANGED <<plan, server, pc, net, sock, var, fs, called, raised, verdict, probabilities, resolution, page, listener, frame, filtered, device>>

(***************************************************************************)
(* ComputerServer.run                                                      *)
(***************************************************************************)
\* an accept loop that handles the connection itself: it accepts the next
\* one only when no handler is at work
run_accept_serial(c) ==
  /\ c \in Conns
  /\ server = "listening"
  /\ pc[c] = "pending"
  /\ \A d \in Conns : pc[d] \in {"pending", "done"}
  /\ pc' = [pc EXCEPT ![c] = "header"]
  /\ UNCHANGED <<plan, server, cli, net, sock, var, fs, called, raised, verdict, probabilities, resolution, page, listener, frame, filtered, device>>

run_accept(c) ==
  /\ c \in Conns
  /\ server = "listening"
  /\ pc[c] = "pending"
  /\ pc' = [pc EXCEPT ![c] = "header"]
  /\ UNCHANGED <<plan, server, cli, net, sock, var, fs, called, raised, verdict, probabilities, resolution, page, listener, frame, filtered, device>>

\* KeyboardInterrupt: the loop ends, the listening socket is closed and the
\* process exits; the workers are daemon threads and end with it
run_interrupt ==
  /\ server = "listening"
  /\ server' = "stopped"
  /\ listener' = "closed"
  /\ pc' = [c \in Conns |-> IF pc[c] \in {"done", "pending"} THEN pc[c] ELSE "killed"]
  /\ sock' = [c \in Conns |-> "closed"]
  /\ var' = [c \in Conns |-> IF pc[c] \in {"done", "pending"} THEN var[c] ELSE NoVars]
  /\ UNCHANGED <<plan, cli, net, fs, called, raised, verdict, probabilities, resolution, page, frame, filtered, device>>

(***************************************************************************)
(* ComputerServer.handle_client                                            *)
(***************************************************************************)
\* the finally clause: client_socket.close(), and the thread ends
Finish(c) ==
  /\ pc' = [pc EXCEPT ![c] = "done"]
  /\ sock' = [sock EXCEPT ![c] = "closed"]

\* an exception that ends the worker without the finally clause
Raise_without_close(c, e) ==
  /\ raised' = [raised EXCEPT ![c] = e]
  /\ pc' = [pc EXCEPT ![c] = "done"]
  /\ UNCHANGED sock

\* an exception reaches one of the except clauses of handle_client
Raise(c, e) ==
  /\ raised' = [raised EXCEPT ![c] = e]
  /\ Finish(c)

\* lines 46-67: read up to the newline one byte at a time, parse the header
handle_client_header(c) ==
  /\ c \in Conns
  /\ pc[c] = "header"
  /\ \/ /\ net[c] # <<>>
        /\ net' = [net EXCEPT ![c] = Tail(@)]
        /\ LET metadata_data == Head(net[c]).text
               parsed == json_loads(metadata_data)
               metadata == parsed.obj
           IN IF metadata_data.enc = "empty"
                THEN Finish(c) /\ UNCHANGED <<var, raised>>
              ELSE IF ~parsed.ok
                THEN Raise(c, "JSONDecodeError") /\ UNCHANGED var
              ELSE IF ~getitem(metadata, "filename").ok
                THEN Raise(c, "KeyError") /\ UNCHANGED var
              ELSE /\ var' = [var EXCEPT
                               ![c].filename = getitem(metadata, "filename").value,
                               ![c].filter_type = get(metadata, "filter", "normal"),
                               ![c].filter_display =
                                  get(metadata, "filter_display", "Normal Color")]
                   /\ pc' = [pc EXCEPT ![c] = "recv"]
                   /\ UNCHANGED <<sock, raised>>
     \/ /\ net[c] = <<>>
        /\ cli[c].phase = "closed"
        /\ Finish(c)
        /\ UNCHANGED <<net, var, raised>>
  /\ UNCHANGED <<plan, server, cli, fs, called, verdict, probabilities, resolution, page, listener, frame, filtered, device>>

\* a receive loop that keeps only the chunk it has just received
keep_last(image_data, chunk) == chunk

\* line 78: image_data += chunk
append_chunk(image_data, chunk) == image_data \o chunk

\* lines 70-80: one pass of the receive loop
handle_client_recv(c) ==
  /\ c \in Conns
  /\ pc[c] = "recv"
  /\ \/ /\ net[c] # <<>>
        /\ LET k == IF Len(net[c]) * ChunkBytes <= RecvSize THEN Len(net[c])
                    ELSE RecvSize \div ChunkBytes
           IN /\ var' = [var EXCEPT ![c].image_data = append_chunk(@, SubSeq(net[c], 1, k))]
              /\ net' = [net EXCEPT ![c] = SubSeq(@, k + 1, Len(@))]
        /\ UNCHANGED <<pc, sock, raised>>
     \/ /\ net[c] = <<>>
        /\ cli[c].phase = "closed"
        /\ pc' = [pc EXCEPT ![c] = "save"]
        /\ UNCHANGED <<net, var, sock, raised>>
     \/ /\ net[c] = <<>>
        /\ cli[c].phase # "closed"
        /\ var' = [var EXCEPT ![c].timed_out = TRUE]
        /\ pc' = [pc EXCEPT ![c] = "save"]
        /\ UNCHANGED <<net, sock, raised>>
     \/ /\ Raise(c, "recv")
        /\ UNCHANGED <<net, var>>
  /\ UNCHANGED <<plan, server, cli, fs, called, verdict, probabilities, resolution, page, listener, frame, filtered, device>>

Size(bytes) == Len(bytes) * ChunkBytes

\* lines 82-94: write the staged file, then the size check
handle_client_save(c) ==
  /\ c \in Conns
  /\ pc[c] = "save"
  /\ \/ /\ fs' = WriteFile(fs, Locate(upload_path_of(var[c].filename)),
                           RawFile(c, var[c].image_data))
        /\ IF Size(var[c].image_data) > MinPayload
             THEN /\ pc' = [pc EXCEPT ![c] = "imread"]
                  /\ called' = [called EXCEPT ![c] = @ \cup {"process_image"}]
                  /\ UNCHANGED sock
             ELSE Finish(c) /\ UNCHANGED called
        /\ UNCHANGED raised
     \/ /\ Raise(c, "open")
        /\ UNCHANGED <<fs, called>>
  /\ UNCHANGED <<plan, server, cli, net, var, verdict, probabilities, resolution, page, listener, frame, filtered, device>>

(***************************************************************************)
(* ComputerServer.process_image                                            *)
(***************************************************************************)
image_path_of(c) == upload_path_of(var[c].filename)

\* an exception reaches the except clause of process_image: it is printed,
\* process_image returns and handle_client closes the socket
ProcessingError(c, e) ==
  /\ raised' = [raised EXCEPT ![c] = e]
  /\ Finish(c)

\* lines 108-112: cv2.imread, None ends the processing
process_image_imread(c) ==
  /\ c \in Conns
  /\ pc[c] = "imread"
  /\ LET image == ImageOf(fs, Locate(image_path_of(c)))
     IN IF image = NoImage
          THEN Finish(c) /\ UNCHANGED var
          ELSE /\ var' = [var EXCEPT ![c].image = image]
               /\ pc' = [pc EXCEPT ![c] =
                           IF var[c].filter_type # "normal" THEN "filter" ELSE "classify"]
               /\ UNCHANGED sock
  /\ UNCHANGED <<plan, server, cli, net, fs, called, raised, verdict, probabilities, resolution, page, listener, frame, filtered, device>>

\* lines 115-119: apply_filter and cv2.imwrite over the staged file
process_image_filter(c) ==
  /\ c \in Conns
  /\ pc[c] = "filter"
  /\ called' = [called EXCEPT ![c] = @ \cup {"apply_filter"}]
  /\ \/ /\ imwrite_ok(image_path_of(c))
        /\ LET image == apply_filter(var[c].image, var[c].filter_type)
           IN /\ var' = [var EXCEPT ![c].image = image]
              /\ fs' = WriteFile(fs, Locate(image_path_of(c)), JpegFile(c, image))
        /\ pc' = [pc EXCEPT ![c] = "classify"]
        /\ UNCHANGED <<sock, raised>>
     \/ /\ ProcessingError(c, "imwrite")
        /\ UNCHANGED <<var, fs>>
  /\ UNCHANGED <<plan, server, cli, net, verdict, probabilities, resolution, page, listener, frame, filtered, device>>

(***************************************************************************)
(* ImageClassifier.classify_and_organize, called at line 123               *)
(***************************************************************************)
\* lines 659-747: open the file, run the model, resolve
classify_resolve(c) ==
  /\ c \in Conns
  /\ pc[c] = "classify"
  /\ called' = [called EXCEPT ![c] = @ \cup {"classify_and_organize"}]
  /\ LET img == ImageOf(fs, Locate(image_path_of(c)))
     IN \/ /\ img # NoImage
           /\ var' = [var EXCEPT ![c].result = verdict[img.subject]]
           /\ pc' = [pc EXCEPT ![c] = "move"]
           /\ UNCHANGED raised
        \/ /\ raised' = [raised EXCEPT ![c] = "classify"]
           /\ pc' = [pc EXCEPT ![c] = "except"]
           /\ UNCHANGED var
  /\ UNCHANGED <<plan, server, cli, net, sock, fs, verdict, probabilities, resolution, page, listener, frame, filtered, device>>

\* lines 749-759: shutil.move into the bucket directory
classify_move(c) ==
  /\ c \in Conns
  /\ pc[c] = "move"
  /\ LET src == Locate(image_path_of(c))
         new_path == gallery_path_of(var[c].result.folder, basename(image_path_of(c)))
     IN \/ /\ Exists(fs, src)
           /\ fs' = MoveFile(fs, src, Locate(new_path))
           /\ var' = [var EXCEPT ![c].new_path = new_path]
           /\ pc' = [pc EXCEPT ![c] = "sidecar"]
           /\ UNCHANGED raised
        \/ /\ raised' = [raised EXCEPT ![c] = "move"]
           /\ pc' = [pc EXCEPT ![c] = "except"]
           /\ UNCHANGED <<fs, var>>
  /\ UNCHANGED <<plan, server, cli, net, sock, called, verdict, probabilities, resolution, page, listener, frame, filtered, device>>

\* lines 783-799
metadata_of(image_path, label, confidence, category) ==
  [filename |-> basename(image_path), ai_label |-> label,
   confidence |-> format_percent(confidence), category |-> category,
   timestamp |-> "isoformat", is_animal |-> category # "non_animal"]

\* line 762: _save_metadata, then the return at line 772
classify_save_metadata(c) ==
  /\ c \in Conns
  /\ pc[c] = "sidecar"
  /\ LET r == var[c].result
         metadata_path == replace_jpg_json(var[c].new_path)
     IN \/ /\ fs' = WriteFile(fs, Locate(metadata_path),
                     JsonFile(c, metadata_of(var[c].new_path, r.label, r.confidence, r.folder)))
           /\ pc' = [pc EXCEPT ![c] = "meta"]
           /\ UNCHANGED <<raised, var>>
        \/ /\ raised' = [raised EXCEPT ![c] = "_save_metadata"]
           /\ pc' = [pc EXCEPT ![c] = "except"]
           /\ UNCHANGED <<fs, var>>
  /\ UNCHANGED <<plan, server, cli, net, sock, called, verdict, probabilities, resolution, page, listener, frame, filtered, device>>

\* str(e) of the exception caught at line 774
error_text(e) == <<"e", "r", "r", "o", "r", ":", " ", e>>

\* a variant in which the except clause takes the file from where the try
\* block moved it to
except_path_follows_move(c) ==
  IF var[c].new_path # <<>> THEN var[c].new_path ELSE image_path_of(c)

\* lines 776-780: the except clause works on image_path, the argument of the
\* call, not on new_path
except_path(c) == image_path_of(c)

\* lines 774-781: move what is left at image_path into the error bucket
classify_except(c) ==
  /\ c \in Conns
  /\ pc[c] = "except"
  /\ LET src == Locate(except_path(c))
         error_path == gallery_path_of("error", basename(image_path_of(c)))
     IN \/ /\ fs' = IF Exists(fs, src) THEN MoveFile(fs, src, Locate(error_path)) ELSE fs
           /\ var' = [var EXCEPT ![c].result =
                        [folder |-> "error", label |-> error_text(raised[c]),
                         confidence |-> 0]]
           /\ pc' = [pc EXCEPT ![c] = "meta"]
           /\ UNCHANGED <<sock, raised>>
        \/ /\ Exists(fs, src)
           /\ ProcessingError(c, "error_move")
           /\ UNCHANGED <<fs, var>>
  /\ UNCHANGED <<plan, server, cli, net, called, verdict, probabilities, resolution, page, listener, frame, filtered, device>>

(***************************************************************************)
(* ComputerServer.save_image_metadata and the end of process_image         *)
(***************************************************************************)
\* lines 141-163: the metadata file beside image_path; failures are printed
save_image_metadata(c) ==
  /\ c \in Conns
  /\ pc[c] = "meta"
  /\ LET r == var[c].result
         metadata ==
           [filename |-> basename(image_path_of(c)), category |-> r.folder,
            filter |-> var[c].filter_display, ai_label |-> r.label,
            confidence |-> format_percent(r.confidence), timestamp |-> "isoformat"]
         metadata_path == replace_jpg_json(image_path_of(c))
     IN \/ fs' = WriteFile(fs, Locate(metadata_path), JsonFile(c, metadata))
        \/ UNCHANGED fs
  /\ pc' = [pc EXCEPT ![c] = "cleanup"]
  /\ UNCHANGED <<plan, server, cli, net, sock, var, called, raised, verdict, probabilities, resolution, page, listener, frame, filtered, device>>

\* lines 135-136, then the finally clause of handle_client
process_image_cleanup(c) ==
  /\ c \in Conns
  /\ pc[c] = "cleanup"
  /\ LET src == Locate(image_path_of(c))
     IN fs' = IF Exists(fs, src) THEN RemoveFile(fs, src) ELSE fs
  /\ Finish(c)
  /\ UNCHANGED <<plan, server, cli, net, var, called, raised, verdict, probabilities, resolution, page, listener, frame, filtered, device>>

Next ==
  \/ \E c \in ConnIds :
       \/ client_send_header(c)
       \/ client_send_chunk(c)
       \/ client_close(c)
       \/ run_accept(c)
       \/ handle_client_header(c)
       \/ handle_client_recv(c)
       \/ handle_client_save(c)
       \/ process_image_imread(c)
       \/ process_image_filter(c)
       \/ classify_resolve(c)
       \/ classify_move(c)
       \/ classify_save_metadata(c)
       \/ classify_except(c)
       \/ save_image_metadata(c)
       \/ process_image_cleanup(c)
  \/ run_interrupt

Spec == Init /\ [][Next]_vars

(***************************************************************************)
(* Two connections whose clients have sent the header line and the whole   *)
(* photo and have closed before the server accepts them; the workers run   *)
(* concurrently.                                                           *)
(***************************************************************************)
PairNames == { <<"a", ".jpg">>, <<"b", ".jpg">>, <<"a", ".json">> }

InitPair ==
  \E plans \in [{1, 2} -> Plans(JsonLines(ValidDicts(PairNames)), {"dog", "cat"},
                                {<<MaxChunks>>})] :
    /\ plan = plans
    /\ server = "listening"
    /\ pc = [c \in {1, 2} |-> "pending"]
    /\ cli = [c \in {1, 2} |-> [phase |-> "closed", line_sent |-> TRUE, bursts |-> 1, sent |-> MaxChunks]]
    /\ net = [c \in {1, 2} |->
                <<[t |-> "line", text |-> plans[c].line]>>
                  \o [i \in 1..MaxChunks |->
                        [t |-> "data", src |-> c, subject |-> plans[c].subject, n |-> i]]]
    /\ sock = [c \in {1, 2} |-> "open"]
    /\ var = [c \in {1, 2} |-> NoVars]
    /\ fs = [l \in {} |-> NoImage]
    /\ called = [c \in {1, 2} |-> {}]
    /\ raised = [c \in {1, 2} |-> "none"]
    /\ verdict = classifier_result
    /\ probabilities = <<>>
    /\ resolution = NoResolution
    /\ page = NoPage
    /\ listener = "open"
    /\ frame = NoFrame
    /\ filtered = NoOutcome
    /\ device = NoDevice

NextPair ==
  \/ \E c \in ConnIds :
       \/ run_accept(c)
       \/ handle_client_header(c)
       \/ handle_client_recv(c)
       \/ handle_client_save(c)
       \/ process_image_imread(c)
       \/ process_image_filter(c)
       \/ classify_resolve(c)
       \/ classify_move(c)
       \/ classify_save_metadata(c)
       \/ classify_except(c)
       \/ save_image_metadata(c)
       \/ process_image_cleanup(c)
  \/ run_interrupt

SpecPair == InitPair /\ [][NextPair]_vars


(***************************************************************************)
(* web_gallery.py: the pages computed from the bucket directories.  File   *)
(* names are compared and tested as Python strings, character by           *)
(* character.  Modification times are not modelled: the `time` field of an *)
(* entry and latest_mtime are left out.                                    *)
(***************************************************************************)
CATEGORY_ORDER == <<"dog", "cat", "bird", "other_animal", "non_animal">>

\* the characters of a path token
Spell(tok) ==
  CASE tok = ".jpg"  -> <<".", "j", "p", "g">>
    [] tok = ".json" -> <<".", "j", "s", "o", "n">>
    [] tok = "../"   -> <<".", ".", "/">>
    [] OTHER         -> <<tok>>

\* a file name as a Python string
RECURSIVE Chars(_)
Chars(name) == IF name = <<>> THEN <<>> ELSE Spell(Head(name)) \o Chars(Tail(name))

\* code points, in increasing order, of the characters file names are made of
CodePoints == <<".", "/">> \o UpperCase \o <<"_">> \o LowerCase

ord(ch) == CHOOSE i \in 1..Len(CodePoints) : CodePoints[i] = ch

\* Python: s < t for strings
RECURSIVE str_lt(_, _)
str_lt(s, t) ==
  IF t = <<>> THEN FALSE
  ELSE IF s = <<>> THEN TRUE
  ELSE IF Head(s) # Head(t) THEN ord(Head(s)) < ord(Head(t))
  ELSE str_lt(Tail(s), Tail(t))

\* sorted(names): ascending
RECURSIVE sorted_forward(_)
sorted_forward(names) ==
  IF names = {} THEN <<>>
  ELSE LET low == CHOOSE n \in names :
                    \A m \in names \ {n} : str_lt(Chars(n), Chars(m))
       IN <<low>> \o sorted_forward(names \ {low})

\* sorted(names, reverse=True)
RECURSIVE sorted_reverse(_)
sorted_reverse(names) ==
  IF names = {} THEN <<>>
  ELSE LET top == CHOOSE n \in names :
                    \A m \in names \ {n} : str_lt(Chars(m), Chars(n))
       IN <<top>> \o sorted_reverse(names \ {top})

\* os.listdir(category_path): the names of the files in a bucket directory
listdir(files, category) ==
  {l.name : l \in {m \in DOMAIN files : m.dir = bucket_dir(category)}}

\* img.lower().endswith('.jpg')
endswith_jpg(img) ==
  LET s == Lower(Chars(img))
  IN Len(s) >= 4 /\ SubSeq(s, Len(s) - 3, Len(s)) = <<".", "j", "p", "g">>

\* lines 34-43: the JSON beside the image, None (here the empty dict, which
\* is what `or {}` makes of it) when it is missing or json.load fails
load_image_metadata(files, image_path) ==
  LET metadata_path == Locate(replace_jpg_json(image_path))
  IN IF Exists(files, metadata_path) /\ files[metadata_path].kind = "json"
       THEN files[metadata_path].dict
       ELSE <<>>

default_filter == "Normal"

default_ai_label == <<"N","o","t"," ","c","l","a","s","s","i","f","i","e","d">>

default_confidence == <<"N", "/", "A">>

\* lines 155-171 (and 61-79 without the category): one entry for an image
image_entry(files, category, img) ==
  LET metadata == load_image_metadata(files, gallery_path_of(category, img))
  IN [url |-> <<"/gallery/", category, "/">> \o img,
      name |-> img,
      filter |-> get(metadata, "filter", default_filter),
      ai_label |-> get(metadata, "ai_label", default_ai_label),
      confidence |-> get(metadata, "confidence", default_confidence)]

\* the images list without reverse=True
images_in_forward_order(files, category) ==
  LET listed == SelectSeq(sorted_forward(listdir(files, category)), endswith_jpg)
  IN [i \in 1..Len(listed) |-> image_entry(files, category, listed[i])]

\* the images list built by the loops at lines 61-79 and 155-171
images_of(files, category) ==
  LET listed == SelectSeq(sorted_reverse(listdir(files, category)), endswith_jpg)
  IN [i \in 1..Len(listed) |-> image_entry(files, category, listed[i])]

\* directories under static/gallery: those made at start-up (lines 179-181,
\* computer_server.py:29-30, image_classifier.py:753-754) and error
GalleryDirs == Buckets \cup {"other", "test"}

\* lines 147-175
category_view(files, category_name) ==
  IF category_name \notin GalleryDirs
    THEN [route |-> "category", status |-> 404, category |-> category_name,
          images |-> <<>>]
    ELSE [route |-> "category", status |-> 200, category |-> category_name,
          images |-> images_of(files, category_name)]

\* lines 45-94
\* line 55: the directories in CATEGORY_ORDER, then the others; of those
\* only error ever holds files
\* lines 82-83: how many listed images carry each filter name
gallery(files) ==
  LET sorted_categories == CATEGORY_ORDER \o <<"error">>
      shown == SelectSeq(sorted_categories, LAMBDA c : images_of(files, c) # <<>>)
      categories == [i \in 1..Len(shown) |->
                       [category |-> shown[i], images |-> images_of(files, shown[i])]]
      entries == UNION {{categories[i].images[j] : j \in 1..Len(categories[i].images)}
                          : i \in 1..Len(categories)}
  IN [route |-> "gallery", status |-> 200, categories |-> categories,
      filter_stats |-> [f \in {e.filter : e \in entries} |->
                         Cardinality({e \in entries : e.filter = f})]]

\* lines 121-129: the names get_stats counts in a bucket directory
counted(files, category) == {img \in listdir(files, category) : endswith_jpg(img)}

RECURSIVE SumOver(_, _)
SumOver(f, S) ==
  IF S = {} THEN 0
  ELSE LET x == CHOOSE y \in S : TRUE IN f[x] + SumOver(f, S \ {x})

\* lines 106-138; a directory that has not been made yet is given with the
\* count 0 it has once it is made
get_stats(files) ==
  LET \* lines 126-129: the counted names whose metadata holds the filter f
      counted_with_filter(category, f) ==
        {img \in counted(files, category) :
           LET metadata == load_image_metadata(files, gallery_path_of(category, img))
           IN metadata # <<>> /\ "filter" \in DOMAIN metadata /\ metadata["filter"] = f}
      \* the filter names found in the metadata of the counted images
      filters_found ==
        UNION {{load_image_metadata(files, gallery_path_of(c, img))["filter"] :
                  img \in {i \in counted(files, c) :
                             "filter" \in DOMAIN load_image_metadata(files, gallery_path_of(c, i))}}
                 : c \in GalleryDirs}
      stats == [c \in GalleryDirs |-> Cardinality(counted(files, c))]
      filter_stats ==
        [f \in filters_found |->
           SumOver([c \in GalleryDirs |-> Cardinality(counted_with_filter(c, f))],
                   GalleryDirs)]
  IN [route |-> "stats", status |-> 200, categories |-> stats,
      total |-> SumOver(stats, GalleryDirs), filters |-> filter_stats]

\* GET /api/stats
get_stats_request ==
  /\ page' = get_stats(fs)
  /\ UNCHANGED <<plan, server, pc, cli, net, sock, var, fs, called, raised,
                 verdict, probabilities, resolution, listener, frame, filtered, device>>

\* GET /
gallery_request ==
  /\ page' = gallery(fs)
  /\ UNCHANGED <<plan, server, pc, cli, net, sock, var, fs, called, raised,
                 verdict, probabilities, resolution, listener, frame, filtered, device>>

\* GET /category/<category_name>
category_view_request(category_name) ==
  /\ page' = category_view(fs, category_name)
  /\ UNCHANGED <<plan, server, pc, cli, net, sock, var, fs, called, raised,
                 verdict, probabilities, resolution, listener, frame, filtered, device>>

\* the metadata files beside the images of the buckets
Sidecars(files) ==
  {s \in DOMAIN files :
     \E l \in DOMAIN files :
       /\ files[s].kind \notin {"raw", "jpeg"}
       /\ l.dir = s.dir
       /\ \E b \in Buckets : l.dir = bucket_dir(b)
       /\ files[l].kind \in {"raw", "jpeg"}
       /\ s.name = replace_jpg_json(l.name)}

\* somebody removes a sidecar from a bucket directory
sidecar_delete ==
  /\ \E s \in Sidecars(fs) : fs' = RemoveFile(fs, s)
  /\ UNCHANGED <<plan, server, pc, cli, net, sock, var, called, raised,
                 verdict, probabilities, resolution, page, listener, frame, filtered, device>>

\* somebody overwrites a sidecar with text that is not JSON
sidecar_damage ==
  /\ \E s \in Sidecars(fs) :
       /\ fs[s].kind = "json"
       /\ fs' = WriteFile(fs, s, [kind |-> "text", by |-> 0])
  /\ UNCHANGED <<plan, server, pc, cli, net, sock, var, called, raised,
                 verdict, probabilities, resolution, page, listener, frame, filtered, device>>

\* what an earlier upload of a dog photo named a.jpg left behind: the image
\* and its sidecar in the bucket, the server's metadata in uploads
\* the files an earlier upload of that photo under `name` left behind
EarlierUpload(name) ==
  LET new_path == gallery_path_of("dog", name)
      r == verdict["dog"]
  IN WriteFile(
       WriteFile(
         WriteFile([l \in {} |-> NoImage],
                   Locate(new_path), JpegFile(0, [src |-> 0, subject |-> "dog", filter |-> "bw"])),
         Locate(replace_jpg_json(new_path)),
         JsonFile(0, metadata_of(new_path, r.label, r.confidence, r.folder))),
       Locate(replace_jpg_json(upload_path_of(name))),
       JsonFile(0, [filename |-> name, category |-> r.folder,
                    filter |-> "Black & White", ai_label |-> r.label,
                    confidence |-> format_percent(r.confidence),
                    timestamp |-> "isoformat"]))

\* one upload, already sent and closed by its client, into a gallery that is
\* empty or holds an earlier photo, while the web gallery serves requests
InitGallery ==
  \E plans \in [{1} -> Plans(JsonLines(ValidDicts(PairNames)), {"dog", "cat"},
                             {<<MaxChunks>>})] :
    /\ plan = plans
    /\ server = "listening"
    /\ pc = [c \in {1} |-> "pending"]
    /\ cli = [c \in {1} |-> [phase |-> "closed", line_sent |-> TRUE, bursts |-> 1, sent |-> MaxChunks]]
    /\ net = [c \in {1} |->
                <<[t |-> "line", text |-> plans[c].line]>>
                  \o [i \in 1..MaxChunks |->
                        [t |-> "data", src |-> c, subject |-> plans[c].subject, n |-> i]]]
    /\ sock = [c \in {1} |-> "open"]
    /\ var = [c \in {1} |-> NoVars]
    /\ verdict = classifier_result
    /\ fs \in {[l \in {} |-> NoImage], EarlierUpload(<<"a", ".jpg">>),
              EarlierUpload(<<"b", ".jpg">>)}
    /\ called = [c \in {1} |-> {}]
    /\ raised = [c \in {1} |-> "none"]
    /\ probabilities = <<>>
    /\ resolution = NoResolution
    /\ page = NoPage
    /\ listener = "open"
    /\ frame = NoFrame
    /\ filtered = NoOutcome
    /\ device = NoDevice

NextGallery ==
  \/ \E c \in ConnIds :
       \/ run_accept(c)
       \/ handle_client_header(c)
       \/ handle_client_recv(c)
       \/ handle_client_save(c)
       \/ process_image_imread(c)
       \/ process_image_filter(c)
       \/ classify_resolve(c)
       \/ classify_move(c)
       \/ classify_save_metadata(c)
       \/ classify_except(c)
       \/ save_image_metadata(c)
       \/ process_image_cleanup(c)
  \/ gallery_request
  \/ get_stats_request
  \/ \E category_name \in GalleryDirs : category_view_request(category_name)
  \/ sidecar_delete
  \/ sidecar_damage

SpecGallery == InitGallery /\ [][NextGallery]_vars

(***************************************************************************)
(* ComputerServer.run from its first line: the listening socket is made,   *)
(* bound and put to listen before the accept loop is entered.              *)
(***************************************************************************)
\* lines 167-168: socket.socket() and setsockopt
run_socket ==
  /\ server = "starting"
  /\ \/ /\ listener' = "open"
        /\ server' = "created"
     \/ /\ server' = "failed"
        /\ UNCHANGED listener
  /\ UNCHANGED <<plan, pc, cli, net, sock, var, fs, called, raised, verdict,
                 probabilities, resolution, page, frame, filtered, device>>

\* lines 169-170: bind and listen stand before the try statement of line
\* 175, so their exception leaves run() past the finally clause
run_listen ==
  /\ server = "created"
  /\ \/ server' = "listening"
     \/ server' = "failed"
  /\ UNCHANGED <<plan, pc, cli, net, sock, var, fs, called, raised, verdict,
                 probabilities, resolution, page, listener, frame, filtered, device>>

InitRun ==
  \E p \in Plans(HeaderLines, Subjects, Bursts(MaxChunks)) :
    /\ plan = [c \in {1} |-> p]
    /\ server = "starting"
    /\ listener = "none"
    /\ frame = NoFrame
    /\ filtered = NoOutcome
    /\ device = NoDevice
    /\ pc = [c \in {1} |-> "pending"]
    /\ cli = [c \in {1} |-> [phase |-> "connected", line_sent |-> FALSE, bursts |-> 0, sent |-> 0]]
    /\ net = [c \in {1} |-> <<>>]
    /\ sock = [c \in {1} |-> "open"]
    /\ var = [c \in {1} |-> NoVars]
    /\ fs = [l \in {} |-> NoImage]
    /\ called = [c \in {1} |-> {}]
    /\ raised = [c \in {1} |-> "none"]
    /\ verdict = classifier_result
    /\ probabilities = <<>>
    /\ resolution = NoResolution
    /\ page = NoPage

\* the devices can connect once the server listens
NextRun ==
  \/ run_socket
  \/ run_listen
  \/ server \in {"listening", "stopped"} /\ Next

SpecRun == InitRun /\ [][NextRun]_vars

(***************************************************************************)
(* image_filters.apply_filter on the arrays OpenCV hands to it.  An image  *)
(* is its shape and what its pixels are; the OpenCV and NumPy calls are    *)
(* modelled by what they do to the shape and by the inputs they reject.    *)
(***************************************************************************)
MaxSide == 4

Returned(image) == [raised |-> "none", image |-> image]

Raised(e) == [raised |-> e]

\* cv2.cvtColor: BGR2GRAY takes 3 or 4 channels, GRAY2BGR takes 1
cvtColor(src, code) ==
  IF code = "COLOR_BGR2GRAY"
    THEN IF src.channels \in {3, 4}
           THEN Returned([src EXCEPT !.channels = 1, !.pixels = Append(@, "gray")])
           ELSE Raised("cv2.error")
  ELSE IF src.channels = 1
    THEN Returned([src EXCEPT !.channels = 3, !.pixels = Append(@, "bgr")])
    ELSE Raised("cv2.error")

\* cv2.getGaussianKernel(ksize, sigma): a ksize x 1 column
getGaussianKernel(ksize) ==
  IF ksize > 0 THEN Returned([rows |-> ksize, cols |-> 1]) ELSE Raised("cv2.error")

\* lines 18-52.  cv2.transform with a rows x cols matrix: cols is the number
\* of channels or one more, the result has rows channels.  The mask is
\* kernel_y * kernel_x.T, and vignette[:,:,k] *= mask for k = 0..2.
vintage(image) ==
  LET transform(src, rows, cols) ==
        IF cols \in {src.channels, src.channels + 1}
          THEN Returned([src EXCEPT !.channels = rows, !.pixels = Append(@, "sepia")])
          ELSE Raised("cv2.error")
      vignette_of(sep, kx, ky) ==
        LET mask == [rows |-> ky.rows, cols |-> kx.rows]
        IN IF sep.channels < 3 THEN Raised("IndexError")
           ELSE IF mask.rows # sep.height \/ mask.cols # sep.width
             THEN Raised("ValueError")
           ELSE Returned([sep EXCEPT !.pixels = Append(@, "vignette")])
      sepia == transform(image, 3, 3)
      kernel_x == getGaussianKernel(image.width)
      kernel_y == getGaussianKernel(image.height)
  IN IF sepia.raised # "none" THEN sepia
     ELSE IF kernel_x.raised # "none" THEN kernel_x
     ELSE IF kernel_y.raised # "none" THEN kernel_y
     ELSE LET result == vignette_of(sepia.image, kernel_x.image, kernel_y.image)
          IN IF result.raised # "none" THEN result
             ELSE Returned([result.image EXCEPT !.pixels = Append(@, "grain")])

\* a black and white filter that hands back the one-channel image
apply_filter_gray(image, filter_name) ==
  IF filter_name = "normal" THEN Returned(image)
  ELSE IF filter_name = "bw" THEN cvtColor(image, "COLOR_BGR2GRAY")
  ELSE IF filter_name = "vintage" THEN vintage(image)
  ELSE Returned(image)

\* lines 4-56, with the exceptions of the calls it makes
apply_filter_cv(image, filter_name) ==
  IF filter_name = "normal" THEN Returned(image)
  ELSE IF filter_name = "bw"
    THEN LET gray == cvtColor(image, "COLOR_BGR2GRAY")
         IN IF gray.raised # "none" THEN gray
            ELSE cvtColor(gray.image, "COLOR_GRAY2BGR")
  ELSE IF filter_name = "vintage" THEN vintage(image)
  ELSE Returned(image)

\* the frames of cv2.imread(path) and of VideoCapture.read(), 8-bit BGR, and
\* the filter ids: the three of the device and ids that are none of them
InitFilter ==
  /\ frame \in {[image |-> [height |-> h, width |-> w, channels |-> 3,
                             pixels |-> <<"captured">>],
                  filter_name |-> id] :
                   h \in 1..MaxSide, w \in 1..MaxSide,
                   id \in {"normal", "bw", "vintage", "sepia", "BW", ""}}
  /\ filtered = NoOutcome
  /\ device = NoDevice
  /\ plan = <<>> /\ pc = <<>> /\ cli = <<>> /\ net = <<>> /\ sock = <<>>
  /\ var = <<>> /\ fs = <<>> /\ called = <<>> /\ raised = <<>>
  /\ verdict = <<>> /\ probabilities = <<>>
  /\ server = "listening"
  /\ resolution = NoResolution
  /\ page = NoPage
  /\ listener = "open"

\* one call of apply_filter
apply_filter_call ==
  /\ filtered = NoOutcome
  /\ filtered' = apply_filter_cv(frame.image, frame.filter_name)
  /\ UNCHANGED <<plan, server, pc, cli, net, sock, var, fs, called, raised,
                 verdict, probabilities, resolution, page, listener, frame,
                 device>>

SpecFilter == InitFilter /\ [][apply_filter_call]_vars

(***************************************************************************)
(* A connection that may stall beside one that does not.  The client of    *)
(* connection 1 sends when it likes and may stop for good at any point,    *)
(* before the newline of the header or in the middle of the body; its      *)
(* worker is scheduled but has nothing to read.  The client of connection  *)
(* 2 has sent everything and closed.  Threads that can run do run: the     *)
(* accept loop and the worker threads are scheduled by the operating       *)
(* system, which is the weak fairness of SpecStall.                        *)
(***************************************************************************)
InitStall ==
  \E stalling \in Plans(JsonLines({[filename |-> <<"a", ".jpg">>]}), {"cat"},
                        {<<MaxChunks>>}),
     prompt \in Plans(JsonLines(ValidDicts({<<"b", ".jpg">>})), {"dog"}, {<<MaxChunks>>}) :
    /\ plan = [c \in {1, 2} |-> IF c = 1 THEN stalling ELSE prompt]
    /\ server = "listening"
    /\ pc = [c \in {1, 2} |-> "pending"]
    /\ cli = [c \in {1, 2} |->
                IF c = 1
                  THEN [phase |-> "connected", line_sent |-> FALSE, bursts |-> 0, sent |-> 0]
                  ELSE [phase |-> "closed", line_sent |-> TRUE, bursts |-> 1, sent |-> MaxChunks]]
    /\ net = [c \in {1, 2} |->
                IF c = 1 THEN <<>>
                ELSE <<[t |-> "line", text |-> prompt.line]>>
                       \o [i \in 1..MaxChunks |->
                             [t |-> "data", src |-> c, subject |-> prompt.subject, n |-> i]]]
    /\ sock = [c \in {1, 2} |-> "open"]
    /\ var = [c \in {1, 2} |-> NoVars]
    /\ fs = [l \in {} |-> NoImage]
    /\ called = [c \in {1, 2} |-> {}]
    /\ raised = [c \in {1, 2} |-> "none"]
    /\ verdict = classifier_result
    /\ probabilities = <<>>
    /\ resolution = NoResolution
    /\ page = NoPage
    /\ listener = "open"
    /\ frame = NoFrame
    /\ filtered = NoOutcome
    /\ device = NoDevice

\* the steps of the thread that handles connection c
Worker(c) ==
  \/ handle_client_header(c)
  \/ handle_client_recv(c)
  \/ handle_client_save(c)
  \/ process_image_imread(c)
  \/ process_image_filter(c)
  \/ classify_resolve(c)
  \/ classify_move(c)
  \/ classify_save_metadata(c)
  \/ classify_except(c)
  \/ save_image_metadata(c)
  \/ process_image_cleanup(c)

NextStall ==
  \/ \E c \in ConnIds :
       \/ client_send_header(c)
       \/ client_send_chunk(c)
       \/ client_close(c)
       \/ run_accept(c)
       \/ Worker(c)
  \/ run_interrupt

SpecStall ==
  /\ InitStall
  /\ [][NextStall]_vars
  /\ \A c \in ConnIds : WF_vars(run_accept(c)) /\ WF_vars(Worker(c))

(***************************************************************************)
(* rdk_final.py: the capture device.  Time is counted in tenths of a       *)
(* second, the resolution the cooldowns need; `clock` is what time.time()  *)
(* returns.  The buttons are moved by the user and read by the loop of     *)
(* RDKCapture.run; a photo file is read in PhotoReads reads of 4096 bytes. *)
(***************************************************************************)
MaxClock == 16

PhotoReads == 1

\* FilterSystem.filters
filters == <<"normal", "bw", "vintage">>

\* cooldown_time of RDKCapture.run, 0.3 s
cooldown_time == 3

get_current_filter(d) == filters[d.current_filter_index + 1]

\* a next_filter without the cooldown, as PhotoCaptureSystem.cycle_filter
next_filter_always(d) ==
  [d EXCEPT !.current_filter_index = (@ + 1) % Len(filters),
            !.last_filter_change = d.clock]

\* lines 49-57; filter_cooldown is 0.5 s
next_filter(d) ==
  LET filter_cooldown == 5
  IN IF d.clock - d.last_filter_change < filter_cooldown THEN d
     ELSE [d EXCEPT !.current_filter_index = (@ + 1) % Len(filters),
                    !.last_filter_change = d.clock]

\* lines 59-67
get_led_pattern(d) ==
  IF get_current_filter(d) = "normal" THEN <<FALSE, FALSE>>
  ELSE IF get_current_filter(d) = "bw" THEN <<TRUE, FALSE>>
  ELSE IF get_current_filter(d) = "vintage" THEN <<FALSE, TRUE>>
  ELSE <<FALSE, FALSE>>

\* lines 151-155 with update_led_states, lines 69-74
update_hardware_leds(d) ==
  LET pattern == get_led_pattern(d)
  IN [d EXCEPT !.led1_state = pattern[1], !.led2_state = pattern[2],
               !.FILTER_LED_1 = pattern[1], !.FILTER_LED_2 = pattern[2]]

\* nothing has been sent
NoSend == [returned |-> "not called"]

\* after initialize() and lines 261-278 of run(): the LEDs show the first
\* filter, the last button states are the current readings
InitDevice ==
  /\ \E b1 \in BOOLEAN, b2 \in BOOLEAN :
       device = [pc |-> "loop", clock |-> 10,
                 button1 |-> b1, button2 |-> b2,
                 current_time |-> 0, current_button1 |-> b1, current_button2 |-> b2,
                 last_button1_state |-> b1, last_button2_state |-> b2,
                 button1_cooldown |-> 0, button2_cooldown |-> 0,
                 capture_count |-> 0, filter_change_count |-> 0,
                 current_filter_index |-> 0, last_filter_change |-> 0,
                 led1_state |-> FALSE, led2_state |-> FALSE,
                 FILTER_LED_1 |-> FALSE, FILTER_LED_2 |-> FALSE,
                 files |-> {}, filename |-> <<>>, sent |-> NoSend,
                 \* history: the filenames of the captures so far, whether a
                 \* capture has reused one, how often the filter has changed
                 captured |-> {}, reused |-> FALSE, changes |-> 0]
  /\ plan = <<>> /\ pc = <<>> /\ cli = <<>> /\ net = <<>> /\ sock = <<>>
  /\ var = <<>> /\ fs = <<>> /\ called = <<>> /\ raised = <<>>
  /\ verdict = <<>> /\ probabilities = <<>>
  /\ server = "listening"
  /\ resolution = NoResolution
  /\ page = NoPage
  /\ listener = "open"
  /\ frame = NoFrame
  /\ filtered = NoOutcome

\* everything but the device
ServerVars ==
  <<plan, server, pc, cli, net, sock, var, fs, called, raised, verdict,
    probabilities, resolution, page, listener, frame, filtered>>

\* a tenth of a second passes
time_passes ==
  /\ device.pc # "off"
  /\ device.clock < MaxClock
  /\ device' = [device EXCEPT !.clock = @ + 1]
  /\ UNCHANGED ServerVars

\* the user presses or releases a button
button_moves ==
  /\ device.pc # "off"
  /\ device.clock < MaxClock
  /\ \/ device' = [device EXCEPT !.button1 = ~@]
     \/ device' = [device EXCEPT !.button2 = ~@]
  /\ UNCHANGED ServerVars

\* lines 282-291: the top of a pass of the loop
run_read ==
  /\ device.pc = "loop"
  /\ device' = [device EXCEPT !.pc = "button1",
                              !.current_time = device.clock,
                              !.current_button1 = device.button1,
                              !.current_button2 = device.button2]
  /\ UNCHANGED ServerVars

\* lines 295-310 with capture_fresh_photo, lines 106-141: the name is made
\* of the second of the clock and the filter; the camera or fswebcam
\* writes the file, or neither does
run_button1 ==
  /\ device.pc = "button1"
  /\ IF /\ device.current_button1
        /\ ~device.last_button1_state
        /\ device.current_time > device.button1_cooldown
       THEN \E written \in BOOLEAN :
              LET blinked == device.clock + 4
                  timestamp == blinked \div 10
                  filename == <<"photo_", timestamp, "_", get_current_filter(device), ".jpg">>
              IN device' = [device EXCEPT
                   !.button1_cooldown = device.current_time + cooldown_time,
                   !.capture_count = @ + 1,
                   !.clock = blinked + 1,
                   !.filename = filename,
                   !.files = IF written THEN @ \cup {filename} ELSE @,
                   !.captured = @ \cup {filename},
                   !.reused = @ \/ filename \in device.captured,
                   !.sent = NoSend,
                   !.pc = IF written \/ filename \in device.files
                            THEN "send" ELSE "button2"]
       ELSE device' = [device EXCEPT !.pc = "button2"]
  /\ UNCHANGED ServerVars

\* lines 173-206.  The steps are connect, the send of the header line, the
\* sends of the reads of the file, and close with os.remove; `failed` is the
\* step that raises, if any.  socket.send returns after it has passed on
\* all or a part of what it was given, and the value it returns is dropped.
send_to_computer ==
  /\ device.pc = "send"
  /\ \E failed \in 0..(PhotoReads + 3), short \in SUBSET (0..PhotoReads) :
       LET ok == failed = PhotoReads + 3
           passed(i) == IF i + 1 >= failed THEN "nothing"
                        ELSE IF i \in short THEN "a part" ELSE "all"
       IN /\ \A i \in short : i + 1 < failed
          /\ device' = [device EXCEPT
               !.sent = [returned |-> ok, filename |-> device.filename,
                         line |-> passed(0),
                         chunks |-> [i \in 1..PhotoReads |-> passed(i)]],
               !.files = IF ok THEN @ \ {device.filename} ELSE @,
               !.clock = @ + 1,
               !.pc = "button2"]
  /\ UNCHANGED ServerVars

\* lines 350-354: the end of a pass
end_of_pass(d) ==
  [d EXCEPT !.last_button1_state = d.current_button1,
            !.last_button2_state = d.current_button2,
            !.pc = "loop"]

\* a change of filter that ends with the flash
flash_filter_leds_last ==
  /\ device.pc = "flash"
  /\ device' = end_of_pass([device EXCEPT !.FILTER_LED_1 = FALSE,
                                           !.FILTER_LED_2 = FALSE,
                                           !.clock = @ + 2])
  /\ UNCHANGED ServerVars

\* lines 161-164 and 345: the LEDs go off, then show the filter again
flash_filter_leds ==
  /\ device.pc = "flash"
  /\ device' = end_of_pass(update_hardware_leds(
                 [device EXCEPT !.FILTER_LED_1 = FALSE,
                                !.FILTER_LED_2 = FALSE,
                                !.clock = @ + 2]))
  /\ UNCHANGED ServerVars

\* lines 325-344 and 159-160: the press is counted, next_filter is called,
\* the LEDs show the filter and then are both switched on
run_button2 ==
  /\ device.pc = "button2"
  /\ IF /\ device.current_button2
        /\ ~device.last_button2_state
        /\ device.current_time > device.button2_cooldown
       THEN LET pressed == [device EXCEPT
                              !.button2_cooldown = device.current_time + cooldown_time,
                              !.filter_change_count = @ + 1]
                shown == update_hardware_leds(next_filter(pressed))
            IN device' = [shown EXCEPT
                 !.changes = IF shown.current_filter_index # device.current_filter_index
                               THEN @ + 1 ELSE @,
                 !.FILTER_LED_1 = TRUE,
                 !.FILTER_LED_2 = TRUE,
                 !.pc = "flash"]
       ELSE device' = end_of_pass(device)
  /\ UNCHANGED ServerVars

NextDevice ==
  \/ time_passes
  \/ button_moves
  \/ run_read
  \/ run_button1
  \/ send_to_computer
  \/ run_button2
  \/ flash_filter_leds

SpecDevice == InitDevice /\ [][NextDevice]_vars

(***************************************************************************)
(* The resolver alone: lines 670-747 of classify_and_organize applied to   *)
(* one softmax output of the model.                                        *)
(***************************************************************************)
\* the number of classes that get a share of the probability mass
MaxHits == 2

label_groom == <<"g","r","o","o","m">>

\* classes of each kind: two human-only labels, a cat, a dog, and an object
ProbeClasses ==
  {ClassIndex(l) : l \in {label_groom, <<"s","c","u","b","a"," ","d","i","v","e","r">>, label_tabby,
                          label_golden_retriever, label_desk}}

\* one more class with a share, for every set of hits in S; the confidences
\* lie on both sides of MIN_CONFIDENCE_HUMAN and MIN_CONFIDENCE_ANIMAL
Grow(S) ==
  LET Levels == {9, 10, 12, 14, 15, 20}
  IN UNION {{h \cup {x} : x \in {y \in ProbeClasses \X Levels : \A z \in h : z[1] # y[1]}} :
              h \in S}

RECURSIVE HitSets(_)
HitSets(n) == IF n = 0 THEN {{}} ELSE Grow(HitSets(n - 1)) \cup HitSets(n - 1)

\* five objects outside both vocabularies that fill the top-5, so that the
\* scan of the whole vector at lines 697-712 is what finds a hit
Crowd ==
  {<<ClassIndex(l), 17>> :
     l \in {label_desk, <<"l","a","p","t","o","p">>,
            <<"t","e","d","d","y"," ","b","e","a","r">>,
            <<"t","a","b","l","e"," ","l","a","m","p">>,
            <<"b","o","o","k","c","a","s","e">>}}

\* outputs with one or two vocabulary classes below the top-5
CrowdedOutputs ==
  {Vec(Crowd \cup {<<i, p>>}) : i \in ProbeClasses \ {ClassIndex(label_desk)},
                                p \in {4, 6, 10, 15}}
    \cup {Vec(Crowd \cup {<<i, p>>, <<j, q>>}) :
             i \in {ClassIndex(label_groom)}, j \in {ClassIndex(label_tabby)},
             p \in {6, 7}, q \in {6, 7}}

\* the softmax outputs considered: every class of the model as a confident
\* top prediction, every way of sharing the mass among up to MaxHits of
\* the probe classes, and the outputs whose top-5 holds no vocabulary label
SoftmaxOutputs ==
  {Vec({<<i, 90>>}) : i \in Classes}
    \cup {Vec(h) : h \in HitSets(MaxHits) \ {{}}}
    \cup CrowdedOutputs

InitResolver ==
  /\ probabilities \in SoftmaxOutputs
  /\ resolution = NoResolution
  /\ plan = <<>>
  /\ server = "listening"
  /\ pc = <<>>
  /\ cli = <<>>
  /\ net = <<>>
  /\ sock = <<>>
  /\ var = <<>>
  /\ fs = <<>>
  /\ called = <<>>
  /\ raised = <<>>
  /\ verdict = <<>>
  /\ page = NoPage
  /\ listener = "open"
  /\ frame = NoFrame
  /\ filtered = NoOutcome
  /\ device = NoDevice

\* lines 670-747 on the output of the model
classify_and_organize ==
  /\ resolution = NoResolution
  /\ resolution' = resolve(probabilities)
  /\ UNCHANGED <<plan, server, pc, cli, net, sock, var, fs, called, raised,
                 verdict, probabilities, page, listener, frame, filtered, device>>

SpecResolver == InitResolver /\ [][classify_and_organize]_vars

(***************************************************************************)
(* Properties of the ingestion service.                                    *)
(***************************************************************************)
ValidHeader(c) ==
  plan[c].line.enc = "json" /\ "filename" \in DOMAIN plan[c].line.obj

sent_filename(c) == plan[c].line.obj.filename

staged_loc(c) == Locate(upload_path_of(sent_filename(c)))

stored_loc(c, b) == [dir |-> bucket_dir(b), name |-> basename(upload_path_of(sent_filename(c)))]

IsImage(content) == content.kind \in {"raw", "jpeg"}

\* the connection whose client sent the photo held by an image file
PhotoOf(content) ==
  IF content.kind = "jpeg" THEN content.image.src
  ELSE IF content.bytes = <<>> THEN 0 ELSE content.bytes[1].src

\* the buckets that hold an image under the name of c's upload
BucketsOf(c) ==
  {b \in Buckets : Exists(fs, stored_loc(c, b)) /\ IsImage(fs[stored_loc(c, b)])}

\* everything the client of c has sent of the body, in order
SentBody(c) == Chunks(c, 0, cli[c].sent)

DistinctNames ==
  \A c, d \in Conns : c # d => sent_filename(c) # sent_filename(d)

\* C1: when the filenames of the concurrent uploads are pairwise distinct,
\* every upload whose worker has finished without an exception is one image
\* in exactly one bucket, the bucket resolved from its own photo, and holds
\* the photo its own client sent; and a staged image, from the moment it is
\* written until it is moved, is the file its own worker wrote (no other
\* worker has overwritten or deleted it).
C1_DistinctUploadsLandApart ==
  DistinctNames =>
    \A c \in Conns :
      /\ (pc[c] = "done" /\ raised[c] = "none")
           => /\ BucketsOf(c) = {verdict[plan[c].subject].folder}
              /\ \A b \in BucketsOf(c) : PhotoOf(fs[stored_loc(c, b)]) = c
      /\ pc[c] \in {"imread", "filter", "classify", "move"}
           => /\ Exists(fs, staged_loc(c))
              /\ IsImage(fs[staged_loc(c)])
              /\ fs[staged_loc(c)].by = c

\* C2: once the uploads have completed, no image filename is present in two
\* bucket directories at once, also when the same filename was uploaded
\* twice with photos that resolve to different buckets.
C2_OneBucketPerName ==
  (\A c \in Conns : pc[c] = "done" /\ raised[c] = "none")
    => \A c \in Conns : Cardinality(BucketsOf(c)) <= 1

\* C3: every upload with a valid header and a body of more than 1024 bytes,
\* once its worker has finished without an exception, is in exactly one
\* bucket directory and no longer in the staging directory.
C3_ValidUploadEndsInOneBucket ==
  \A c \in Conns :
    (/\ pc[c] = "done" /\ raised[c] = "none"
     /\ ValidHeader(c) /\ Size(var[c].image_data) > MinPayload)
      => /\ Cardinality(BucketsOf(c)) = 1
         /\ ~Exists(fs, staged_loc(c))

\* C4: the receive loop keeps every byte in arrival order (what was sent is
\* what was received followed by what is still unread), it is left only at
\* end of stream or at a timeout, no receive follows a timeout, and the
\* staged file holds exactly the bytes received.
C4_ReceiveLoopKeepsBytes ==
  \A c \in Conns :
    /\ var[c].filename # <<>> => var[c].image_data \o net[c] = SentBody(c)
    /\ var[c].timed_out => pc[c] # "recv"
    /\ (pc[c] = "save" /\ ~var[c].timed_out)
         => /\ cli[c].phase = "closed" /\ net[c] = <<>>
            /\ var[c].image_data = SentBody(c)
    /\ pc[c] = "imread" => fs[staged_loc(c)] = RawFile(c, var[c].image_data)
    /\ (pc[c] = "done" /\ raised[c] = "none" /\ var[c].filename # <<>>
          /\ Size(var[c].image_data) <= MinPayload)
         => fs[staged_loc(c)] = RawFile(c, var[c].image_data)

\* a timeout ended the loop after part of the body, the rest arrived later
\* and was never received
C4_Witness ==
  \E c \in Conns :
    /\ pc[c] = "done" /\ var[c].timed_out
    /\ Exists(fs, staged_loc(c))
    /\ 0 < Len(var[c].image_data) /\ Len(var[c].image_data) < cli[c].sent

\* the client sent no usable header: an empty line, nothing at all before it
\* closed, text that is not JSON, or an object without `filename`
BadHeader(c) ==
  \/ ~ValidHeader(c)
  \/ cli[c].phase = "closed" /\ ~cli[c].line_sent

\* C5: with an empty, non-JSON or filename-less header line no file is
\* created anywhere, neither the filter nor the classifier is invoked, and
\* the worker ends with the socket closed.
C5_BadHeaderHasNoEffect ==
  \A c \in Conns :
    BadHeader(c)
      => /\ DOMAIN fs = {}
         /\ called[c] = {}
         /\ pc[c] \in {"pending", "header", "done", "killed"}
         /\ pc[c] = "done" => sock[c] = "closed"

C5_Witness ==
  \E c \in Conns : pc[c] = "done" /\ raised[c] = "KeyError" /\ sock[c] = "closed"

\* C6: a body of 1024 bytes or fewer leaves no file of the upload in the
\* staging directory or in a bucket, and process_image is not called.
C6_SmallBodyLeavesNothing ==
  \A c \in Conns :
    (/\ pc[c] = "done" /\ raised[c] = "none"
     /\ var[c].filename # <<>> /\ Size(var[c].image_data) <= MinPayload)
      => /\ ~Exists(fs, staged_loc(c))
         /\ BucketsOf(c) = {}
         /\ "process_image" \notin called[c]

\* C7: every file the service creates lies in the staging directory or in a
\* bucket directory, whatever the filename in the header.
C7_FilesStayInside ==
  \A l \in DOMAIN fs :
    l.dir = uploads_dir \/ \E b \in Buckets : l.dir = bucket_dir(b)

\* C8: a step in which an exception is raised in the worker of connection c
\* is taken by that worker alone: the accept loop keeps its state, the
\* filesystem is untouched, and the position, variables, socket and
\* exception record of every other worker are unchanged; a worker that has
\* ended has closed its socket; and as long as run() is listening a pending
\* connection can be accepted, whatever has been raised in other workers.
C8_ExceptionsStayInTheirWorker ==
  [][\A c \in Conns :
       /\ raised'[c] # raised[c]
            => /\ server' = server
               /\ fs' = fs
               /\ \A d \in Conns \ {c} :
                    /\ pc'[d] = pc[d] /\ var'[d] = var[d]
                    /\ sock'[d] = sock[d] /\ raised'[d] = raised[d]
       /\ pc'[c] = "done" => sock'[c] = "closed"
       /\ (server = "listening" /\ pc[c] = "pending") => ENABLED run_accept(c)]_vars

\* one worker ended in an exception with its socket closed, the other stored
\* its photo in the bucket resolved for it, and run() is still listening
C8_Witness ==
  \E c, d \in Conns :
    /\ c # d /\ server = "listening"
    /\ pc[c] = "done" /\ raised[c] # "none" /\ sock[c] = "closed"
    /\ pc[d] = "done" /\ raised[d] = "none"
    /\ BucketsOf(d) = {verdict[plan[d].subject].folder}
    /\ PhotoOf(fs[stored_loc(d, verdict[plan[d].subject].folder)]) = d

InList(label, list) == \E i \in DOMAIN list : list[i] = label

\* C9: when the animal hit selected by the scan has a confidence of at least
\* 0.15, the bucket is dog, cat or bird exactly when the matched raw label
\* is in the dog, cat or bird list, it is other_animal for every other
\* animal label, and the confidence returned is that of the animal hit.
C9_BucketIsTheLabelsList ==
  resolution # NoResolution =>
    LET st == scan(probabilities) IN
      (st.best_animal # None /\ st.best_confidence >= MIN_CONFIDENCE_ANIMAL)
        => /\ resolution.confidence = st.best_confidence
           /\ resolution.folder = "dog" <=> InList(st.best_animal, dog_labels)
           /\ resolution.folder = "cat" <=> InList(st.best_animal, cat_labels)
           /\ resolution.folder = "bird" <=> InList(st.best_animal, bird_labels)
           /\ resolution.folder \in {"dog", "cat", "bird", "other_animal"}

\* C10: when no animal label among the top-K has a confidence of at least
\* 0.15 and some human-only label among the top-K has one of at least 0.10,
\* the resolver returns non_animal, "Human" and the confidence of the best
\* human label, whichever of the animal and the human label ranks higher.
C10_HumanWinsWithoutAnimal ==
  resolution # NoResolution =>
    LET top_cat_ids == topk(probabilities, TopK, {})
        top == {top_cat_ids[i] : i \in 1..Len(top_cat_ids)}
        animal == {i \in top : /\ is_animal(all_labels[i])
                               /\ probabilities[i] >= MIN_CONFIDENCE_ANIMAL}
        human == {i \in top : /\ is_human(all_labels[i]) /\ ~is_animal(all_labels[i])
                              /\ probabilities[i] >= MIN_CONFIDENCE_HUMAN}
    IN (animal = {} /\ human # {})
         => /\ resolution.folder = "non_animal"
            /\ resolution.label = <<"H","u","m","a","n">>
            /\ \E i \in human :
                 /\ resolution.confidence = probabilities[i]
                 /\ \A j \in human : probabilities[j] <= probabilities[i]

\* the indices of the top-K predictions
TopSet(p) ==
  LET top_cat_ids == topk(p, TopK, {}) IN {top_cat_ids[i] : i \in 1..Len(top_cat_ids)}

\* the classes whose label is in the ANIMAL vocabulary, and those whose
\* label is in the HUMAN vocabulary only
AnimalClasses == {i \in Classes : is_animal(all_labels[i])}

HumanClasses == {i \in Classes \ AnimalClasses : is_human(all_labels[i])}

IsAnimalClass(i) == i \in AnimalClasses

IsHumanClass(i) == i \in HumanClasses

MaxConfidence(p, S) == IF S = {} THEN 0 ELSE p[CHOOSE i \in S : \A j \in S : p[j] <= p[i]]

\* the hits of the two steps as the specification describes them: the best
\* animal and the best human label of the top-K, each on its own, and when
\* the top-K has neither, the first class in index order above 5% that is in
\* a vocabulary
HitConfidence(p, kind) ==
  LET animals == {i \in TopSet(p) : IsAnimalClass(i) /\ p[i] > 0}
      humans == {i \in TopSet(p) : IsHumanClass(i) /\ p[i] > 0}
      later == {i \in DOMAIN p : p[i] > FALLBACK_MIN /\ (IsAnimalClass(i) \/ IsHumanClass(i))}
      first == {i \in later : \A j \in later : i <= j}
  IN IF animals \cup humans # {}
       THEN MaxConfidence(p, IF kind = "animal" THEN animals ELSE humans)
       ELSE MaxConfidence(p, {i \in first : IF kind = "animal" THEN IsAnimalClass(i)
                                                             ELSE IsHumanClass(i)})

\* C11: with no animal hit of at least 0.15 and no human hit of at least
\* 0.10 the resolver returns non_animal, "Other" and the confidence of the
\* top-1 prediction, whatever the confidence of a vocabulary hit is.
C11_OtherCarriesTopOne ==
  resolution # NoResolution =>
    ((/\ HitConfidence(probabilities, "animal") < MIN_CONFIDENCE_ANIMAL
      /\ HitConfidence(probabilities, "human") < MIN_CONFIDENCE_HUMAN)
       => /\ resolution.folder = "non_animal"
          /\ resolution.label = <<"O","t","h","e","r">>
          /\ \A i \in Classes : probabilities[i] <= resolution.confidence
          /\ \E i \in Classes : probabilities[i] = resolution.confidence)

\* an object is the top prediction and a vocabulary label below its
\* threshold is second: the confidence returned is the object's
C11_Witness ==
  /\ resolution.label = <<"O","t","h","e","r">>
  /\ HitConfidence(probabilities, "animal") > 0
  /\ HitConfidence(probabilities, "animal") < resolution.confidence
  /\ resolution.confidence = probabilities[ClassIndex(label_desk)]

\* what a rule of the generalization map returns for a label
RuleOutcome(r, label_lower) == IF r.title THEN Title(label_lower) ELSE r.name

MatchingRules(label) ==
  {i \in 1..Len(generalization_rules) : RuleMatches(generalization_rules[i], Lower(label))}

\* the animal branch was taken for the label the scan selected
AnimalBranch(st) ==
  /\ resolution # NoResolution
  /\ st.best_animal # None
  /\ st.best_confidence >= MIN_CONFIDENCE_ANIMAL

\* C18: the label returned for an animal is the outcome of the first rule,
\* in the written order of the if-chain, whose condition holds for the
\* lower-cased raw label, so that no later rule decides when an earlier one
\* matches; it is the title-cased raw label when no rule matches.
C18_FirstRuleWins ==
  LET st == scan(probabilities) IN
    AnimalBranch(st) =>
      LET raw == st.best_animal
          m == MatchingRules(raw)
      IN /\ m = {} => resolution.label = Title(raw)
         /\ \A i \in m :
              (\A j \in m : i <= j)
                => resolution.label = RuleOutcome(generalization_rules[i], Lower(raw))

\* a label for which two rules with different outcomes match, resolved to
\* the outcome of the earlier one
C18_Witness ==
  LET st == scan(probabilities) IN
    /\ AnimalBranch(st)
    /\ LET raw == st.best_animal
           m == MatchingRules(raw)
       IN \E i, j \in m :
            /\ i < j /\ \A k \in m : i <= k
            /\ RuleOutcome(generalization_rules[i], Lower(raw))
                 # RuleOutcome(generalization_rules[j], Lower(raw))
            /\ resolution.label = RuleOutcome(generalization_rules[i], Lower(raw))

\* the big-cat table of lines 240-244: keyword and canonical name
BigCats ==
  { <<<<"t","i","g","e","r">>, <<"T","i","g","e","r">>>>,
    <<<<"l","i","o","n">>, <<"L","i","o","n">>>>,
    <<<<"c","h","e","e","t","a","h">>, <<"C","h","e","e","t","a","h">>>>,
    <<<<"l","e","o","p","a","r","d">>, <<"L","e","o","p","a","r","d">>>>,
    <<<<"s","n","o","w"," ","l","e","o","p","a","r","d">>,
      <<"S","n","o","w"," ","L","e","o","p","a","r","d">>>>,
    <<<<"j","a","g","u","a","r">>, <<"J","a","g","u","a","r">>>>,
    <<<<"c","o","u","g","a","r">>, <<"C","o","u","g","a","r">>>>,
    <<<<"l","y","n","x">>, <<"L","y","n","x">>>> }

\* C19: a big-cat species label selected with a confidence of at least 0.15
\* is resolved to other_animal under the species' own canonical name.
C19_BigCatsKeepTheirName ==
  LET st == scan(probabilities) IN
    AnimalBranch(st) =>
      \A bc \in BigCats :
        st.best_animal = bc[1]
          => /\ resolution.folder = "other_animal"
             /\ resolution.label = bc[2]

\* C20: a label of the dog list that is the top prediction with a
\* confidence of at least 0.15 is resolved to bucket dog and label "Dog".
C20_DogLabelsAreDogs ==
  LET st == scan(probabilities) IN
    (/\ AnimalBranch(st)
     /\ InList(st.best_animal, dog_labels)
     /\ \A i \in Classes : probabilities[i] <= st.best_confidence)
      => /\ resolution.folder = "dog"
         /\ resolution.label = <<"D","o","g">>

\* what classify_and_organize has returned to process_image for c is the
\* error triple: bucket error, the text of an exception, confidence 0
ReturnsError(c) ==
  /\ var[c].result.folder = "error"
  /\ var[c].result.confidence = 0
  /\ \E e \in {"classify", "move", "_save_metadata", "error_move"} :
       var[c].result.label = error_text(e)

\* C12: whatever is raised inside classify_and_organize (opening the image
\* and inference, the move into the bucket, the write of the sidecar, the
\* move into the error bucket), the call returns bucket error, the text of
\* the exception and confidence 0, and nothing reaches process_image.
C12_ClassifierNeverRaises ==
  \A c \in Conns :
    (/\ raised[c] \in {"classify", "move", "_save_metadata", "error_move"}
     /\ pc[c] \in {"meta", "cleanup", "done"})
      => ReturnsError(c)

\* C13: the file in the error bucket under the name of an upload holds
\* exactly the bytes its client sent, whatever the filter of the header.
C13_ErrorBucketKeepsTheOriginal ==
  \A c \in Conns :
    (ValidHeader(c) /\ Exists(fs, stored_loc(c, "error")))
      => /\ fs[stored_loc(c, "error")].kind = "raw"
         /\ fs[stored_loc(c, "error")].bytes = SentBody(c)

\* where the sidecar of the image c's upload left in bucket b is looked for
sidecar_loc(c, b) ==
  Locate(replace_jpg_json(gallery_path_of(b, basename(upload_path_of(sent_filename(c))))))

\* the fields of the sidecar that come from the classification
SidecarOfResult(c, b, d) ==
  /\ {"filename", "category", "ai_label", "confidence", "timestamp", "is_animal"} \subseteq DOMAIN d
  /\ d.filename = basename(upload_path_of(sent_filename(c)))
  /\ d.category = b
  /\ d.ai_label = verdict[plan[c].subject].label
  /\ d.confidence = format_percent(verdict[plan[c].subject].confidence)
  /\ d.is_animal = (b \notin {"non_animal", "error"})

\* C14: once an upload has been stored without an exception, the JSON file
\* beside the stored image in its bucket holds filename, category (the
\* bucket), ai_label, confidence as a percentage, the filter display name of
\* the header, a timestamp and is_animal.
C14_SidecarHoldsAllFields ==
  \A c \in Conns :
    (pc[c] = "done" /\ raised[c] = "none" /\ ValidHeader(c))
      => \A b \in BucketsOf(c) :
           /\ Exists(fs, sidecar_loc(c, b))
           /\ fs[sidecar_loc(c, b)].kind = "json"
           /\ SidecarOfResult(c, b, fs[sidecar_loc(c, b)].dict)
           /\ "filter" \in DOMAIN fs[sidecar_loc(c, b)].dict
           /\ fs[sidecar_loc(c, b)].dict.filter = var[c].filter_display

\* the file process_image handed to the classifier for c
Classified(c) ==
  IF var[c].filter_type = "normal" THEN RawFile(c, var[c].image_data)
  ELSE JpegFile(c, var[c].image)

ListedIn(pg, b) ==
  IF pg.route = "category" /\ pg.category = b THEN pg.images
  ELSE IF pg.route = "gallery" /\ \E i \in 1..Len(pg.categories) : pg.categories[i].category = b
    THEN pg.categories[CHOOSE i \in 1..Len(pg.categories) : pg.categories[i].category = b].images
  ELSE <<>>

\* the page is what the gallery or the category view of b answers now
FreshPageOf(b) == page = gallery(fs) \/ page = category_view(fs, b)

\* the image c's upload left in bucket b, with the sidecar its worker wrote
StoredWithSidecar(c, b) ==
  /\ pc[c] = "done" /\ raised[c] = "none"
  /\ ValidHeader(c)
  /\ b \in BucketsOf(c)
  /\ fs[stored_loc(c, b)].by = c
  /\ Exists(fs, sidecar_loc(c, b))
  /\ fs[sidecar_loc(c, b)].kind = "json"
  /\ fs[sidecar_loc(c, b)].by = c

\* C16: a photo uploaded with filter_display F in its header and stored is
\* listed in its bucket, by the gallery and by the category view, with
\* filter F, the resolved label and the resolved confidence as a percentage.
C16_ListingShowsWhatWasRecorded ==
  \A c \in Conns : \A b \in Buckets :
    (/\ StoredWithSidecar(c, b)
     /\ "filter_display" \in DOMAIN plan[c].line.obj
     /\ FreshPageOf(b))
      => \E i \in 1..Len(ListedIn(page, b)) :
           LET e == ListedIn(page, b)[i]
           IN /\ e.name = stored_loc(c, b).name
              /\ e.filter = plan[c].line.obj.filter_display
              /\ e.ai_label = verdict[plan[c].subject].label
              /\ e.confidence = format_percent(verdict[plan[c].subject].confidence)

\* an image of a bucket for which load_image_metadata finds nothing: the
\* file at the sidecar path is missing or does not hold JSON
WithoutSidecar(b, l) ==
  /\ l \in DOMAIN fs
  /\ l.dir = bucket_dir(b)
  /\ IsImage(fs[l])
  /\ load_image_metadata(fs, gallery_path_of(b, l.name)) = <<>>

ListedWithDefaults(b, name) ==
  \E i \in 1..Len(ListedIn(page, b)) :
    LET e == ListedIn(page, b)[i]
    IN /\ e.name = name
       /\ e.filter = default_filter
       /\ e.ai_label = default_ai_label
       /\ e.confidence = default_confidence

\* removing or damaging a sidecar leaves every image file as it was
SidecarLossKeepsImages ==
  (sidecar_delete \/ sidecar_damage)
    => \A l \in DOMAIN fs : IsImage(fs[l]) => (l \in DOMAIN fs' /\ fs'[l] = fs[l])

\* C17: an image of a bucket whose sidecar is missing, was deleted or is
\* not JSON is still listed by the gallery and by the category view, with
\* filter Normal, label Not classified and confidence N/A; and deleting a
\* sidecar neither removes nor changes an image file.
C17_NoSidecarGivesDefaults ==
  /\ [](\A b \in Buckets : \A l \in DOMAIN fs :
          (WithoutSidecar(b, l) /\ FreshPageOf(b)) => ListedWithDefaults(b, l.name))
  /\ [][SidecarLossKeepsImages]_vars

(***************************************************************************)
(* Shutdown, sockets and stalls.                                           *)
(***************************************************************************)
\* C21: when the accept loop is stopped by a termination signal, no worker
\* that is in flight is ended before it has finished: every accepted
\* connection's worker runs to its end.
C21_WorkersDrainOnShutdown ==
  \A c \in Conns : pc[c] # "killed"

\* C22: every socket of the ingestion service is closed on every way out of
\* the code that owns it: the listening socket once run() has ended, also by
\* an exception of bind or listen, and the accepted socket once its worker
\* has ended, also after an empty or invalid header or an exception.
C22_SocketsAreClosed ==
  /\ server \in {"stopped", "failed"} => listener # "open"
  /\ \A c \in Conns : pc[c] = "done" => sock[c] = "closed"

\* the names a page lists, bucket by bucket
ListedNames(pg, b) == [i \in 1..Len(ListedIn(pg, b)) |-> ListedIn(pg, b)[i].name]

AllListed ==
  UNION {{images_of(fs, b)[i] : i \in 1..Len(images_of(fs, b))} : b \in GalleryDirs}

\* how many of them are shown with each filter name
UsageOfListed ==
  [f \in {e.filter : e \in AllListed} |-> Cardinality({e \in AllListed : e.filter = f})]

\* C24: the counts agree with the listing: /api/stats gives for each bucket
\* the number of images listed in it and their sum as total, and the
\* per-filter counts of the gallery page and of /api/stats count every
\* listed image once, under the filter of its sidecar or under Normal, and
\* so add up to the total.
C24_CountsAgreeWithListing ==
  /\ page = gallery(fs) => page.filter_stats = UsageOfListed
  /\ page = get_stats(fs)
       => /\ \A b \in GalleryDirs : page.categories[b] = Len(images_of(fs, b))
          /\ page.total = SumOver(page.categories, GalleryDirs)
          /\ page.filters = UsageOfListed
          /\ SumOver(page.filters, DOMAIN page.filters) = page.total

\* the photo an image file holds: dog, cat, ...
SubjectOf(content) ==
  IF content.kind = "jpeg" THEN content.image.subject
  ELSE IF content.bytes = <<>> THEN "none" ELSE content.bytes[1].subject

\* the image files of the buckets
StoredImages == {l \in DOMAIN fs : (\E b \in Buckets : l.dir = bucket_dir(b)) /\ IsImage(fs[l])}

\* C25: two uploads under one filename share one staged path and one path
\* per bucket, and nothing protects what is there: the worker that writes
\* its staged file replaces whatever the other worker has staged, and the
\* worker that moves replaces whatever is stored under the name in that
\* bucket with the file that is staged at that moment.
C25_SameNameOverwrites ==
  [][\A c, d \in Conns :
       (c # d /\ sent_filename(c) = sent_filename(d))
         => /\ (pc[c] = "save" /\ pc'[c] \in {"imread", "done"} /\ raised'[c] = raised[c])
                 => fs'[staged_loc(d)] = RawFile(c, var[c].image_data)
            /\ (pc[c] = "move" /\ pc'[c] = "sidecar")
                 => fs'[stored_loc(d, var[c].result.folder)] = fs[staged_loc(d)]]_vars

\* both uploads of one filename are complete without an exception; one photo
\* is stored, the other is lost, and the stored photo lies in the bucket
\* resolved from the other upload's bytes
C25_Witness ==
  \E c, d \in Conns :
    /\ c # d
    /\ sent_filename(c) = sent_filename(d)
    /\ plan[c].subject # plan[d].subject
    /\ pc[c] = "done" /\ pc[d] = "done"
    /\ raised[c] = "none" /\ raised[d] = "none"
    /\ Cardinality(StoredImages) = 1
    /\ \E l \in StoredImages :
         /\ PhotoOf(fs[l]) = d
         /\ l.dir = bucket_dir(verdict[plan[c].subject].folder)
         /\ l.dir # bucket_dir(verdict[SubjectOf(fs[l])].folder)

(***************************************************************************)
(* Properties of the filter.                                               *)
(***************************************************************************)
\* C26: apply_filter raises nothing; for normal and for every id that is
\* neither bw nor vintage it returns the image it was given; for every id
\* the image it returns has the height, width and number of channels of the
\* image it was given.
C26_FilterKeepsShape ==
  filtered # NoOutcome
    => /\ filtered.raised = "none"
       /\ frame.filter_name \notin {"bw", "vintage"} => filtered.image = frame.image
       /\ filtered.image.height = frame.image.height
       /\ filtered.image.width = frame.image.width
       /\ filtered.image.channels = frame.image.channels

\* a frame that is not square has gone through the black and white filter
C26_Witness ==
  /\ filtered # NoOutcome
  /\ frame.filter_name = "bw"
  /\ frame.image.height # frame.image.width
  /\ filtered.raised = "none"
  /\ filtered.image # frame.image

(***************************************************************************)
(* Properties of the two scans of the resolver.                            *)
(***************************************************************************)
\* what lines 674-695 have recorded when the loop over the top-K ends
AfterTopScan(p) ==
  top_scan(p, topk(p, TopK, {}), 1,
           [best_animal |-> None, best_human |-> None,
            best_confidence |-> 0, best_label |-> <<>>])

\* the top-K classes of the ANIMAL vocabulary, and those of the HUMAN
\* vocabulary only, that the model gives any probability
TopAnimals(p) == {i \in TopSet(p) : IsAnimalClass(i) /\ p[i] > 0}

TopHumans(p) == {i \in TopSet(p) : IsHumanClass(i) /\ p[i] > 0}

\* hit is the label of a class of S with the highest confidence in S, or
\* None when S is empty
IsBestOf(hit, p, S) ==
  IF S = {} THEN hit = None
  ELSE \E i \in S : all_labels[i] = hit /\ p[i] = MaxConfidence(p, S)

\* C27: after the scan of the top-K the animal hit is the top-K label of the
\* ANIMAL vocabulary with the highest confidence, if there is one, and the
\* human hit is the top-K label of the HUMAN vocabulary only with the
\* highest confidence, if there is one, each whatever the other is.
C27_HitsAreIndependent ==
  resolution # NoResolution =>
    LET st == AfterTopScan(probabilities)
    IN /\ IsBestOf(st.best_animal, probabilities, TopAnimals(probabilities))
       /\ IsBestOf(st.best_human, probabilities, TopHumans(probabilities))

\* the classes the scan over the whole vector can take: above 5% and in a
\* vocabulary
Candidates(p) ==
  {i \in Classes : p[i] > FALLBACK_MIN /\ (IsAnimalClass(i) \/ IsHumanClass(i))}

\* C28: the scan over the whole vector changes nothing when the scan of the
\* top-K has recorded a hit; otherwise it records the first class in index
\* order that is above 5% and in a vocabulary, and nothing when there is
\* none; a class at 5% or less is never taken.
C28_FallbackTakesTheFirstAboveFivePercent ==
  resolution # NoResolution =>
    LET before == AfterTopScan(probabilities)
        st == scan(probabilities)
        cand == Candidates(probabilities)
    IN IF before.best_animal # None \/ before.best_human # None \/ cand = {}
         THEN st = before
         ELSE LET first == CHOOSE i \in cand : \A j \in cand : i <= j
              IN /\ st.best_label = all_labels[first]
                 /\ st.best_confidence = probabilities[first]
                 /\ st.best_confidence > FALLBACK_MIN
                 /\ st.best_animal = (IF IsAnimalClass(first) THEN all_labels[first] ELSE None)
                 /\ st.best_human = (IF IsAnimalClass(first) THEN None ELSE all_labels[first])

\* the top-K holds no vocabulary label and the scan over the whole vector
\* has taken a class although a later class is more probable
C28_Witness ==
  /\ resolution # NoResolution
  /\ LET before == AfterTopScan(probabilities)
         st == scan(probabilities)
     IN /\ before.best_animal = None /\ before.best_human = None
        /\ st.best_label # <<>>
        /\ \E j \in Candidates(probabilities) :
             probabilities[j] > st.best_confidence

(***************************************************************************)
(* Properties of the threads of the server                                 *)
(***************************************************************************)
\* the worker of c has nothing to read and its client has not closed
StalledInHeader(c) ==
  pc[c] = "header" /\ net[c] = <<>> /\ cli[c].phase # "closed"

\* the worker of c has ended by itself
Completed(c) == pc[c] = "done"

\* the photo of c is in a bucket under the name its client gave
StoredBy(c) ==
  \E l \in StoredImages : fs[l].by = c /\ l.name = basename(upload_path_of(var[c].filename))

\* C29: a connection that stalls holds only its own worker.  The accept loop
\* can take a waiting connection whatever the workers are doing; the worker
\* of every other connection runs to its end unless the server is stopped;
\* and when that worker ends without an exception the photo it received is
\* in a bucket.
C29_StallHoldsOnlyItsOwnWorker ==
  /\ [](\A c \in Conns :
          (server = "listening" /\ pc[c] = "pending") => ENABLED run_accept(c))
  /\ [](\A c \in Conns :
          (Completed(c) /\ raised[c] = "none" /\ c # 1) => StoredBy(c))
  /\ <>(Completed(2) \/ server = "stopped")

\* connection 1 is stalled before the newline of its header while the photo
\* of connection 2 has been stored and its worker has ended
C29_Witness ==
  /\ StalledInHeader(1)
  /\ Completed(2)
  /\ StoredBy(2)

\* the thread of c has ended and the socket it was given is closed
Ended(c) == pc[c] \in {"done", "killed"} /\ sock[c] = "closed"

\* C30: a worker never waits for good: from the header phase as well as
\* from the body phase it comes to its end with its socket closed, whether
\* its peer closes the connection or falls silent.
C30_WorkersEndOnSilentPeers ==
  \A c \in ConnIds : [](pc[c] \in {"header", "recv"} => <>Ended(c))

(***************************************************************************)
(* Properties of what classify_and_organize returns and leaves behind      *)
(***************************************************************************)
\* the buckets other than error that hold a file under the name of c's upload
OtherBucketsOf(c) == {b \in Buckets \ {"error"} : Exists(fs, stored_loc(c, b))}

\* C31: when classify_and_organize has returned to process_image, the file
\* of the upload is in the directory of the bucket it returned; when it
\* returned error the file is in the error bucket or in no bucket at all.
C31_ImageIsWhereTheResultSays ==
  \A c \in Conns :
    pc[c] = "meta" =>
      IF var[c].result.folder # "error"
        THEN Exists(fs, stored_loc(c, var[c].result.folder))
        ELSE Exists(fs, stored_loc(c, "error")) \/ OtherBucketsOf(c) = {}

\* the worker of c writes a sidecar in this step: _save_metadata beside the
\* stored image, or save_image_metadata beside the staged path
WritesSidecar(c) ==
  \/ pc[c] = "sidecar" /\ pc'[c] = "meta"
  \/ pc[c] = "meta" /\ pc'[c] = "cleanup"

\* C32: a step that writes a sidecar leaves every image file as it was, in
\* the buckets and in the staging directory, whatever the filename.
C32_SidecarWriteKeepsImages ==
  [][\A c \in Conns :
       WritesSidecar(c) =>
         \A l \in DOMAIN fs :
           IsImage(fs[l]) => (l \in DOMAIN fs' /\ fs'[l] = fs[l])]_vars

\* the image files stored in bucket b
StoredIn(b) == {l \in StoredImages : l.dir = bucket_dir(b)}

\* C33: every image file of a bucket directory, the error bucket included,
\* is listed under its name by the gallery and by the category view of its
\* bucket, and /api/stats counts for each bucket the image files it holds,
\* whatever their names.
C33_StoredPhotosAreListedAndCounted ==
  \A b \in Buckets :
    /\ FreshPageOf(b) =>
         \A l \in StoredIn(b) :
           \E i \in 1..Len(ListedIn(page, b)) : ListedIn(page, b)[i].name = l.name
    /\ page = get_stats(fs) => page.categories[b] = Cardinality(StoredIn(b))

\* the staging directory
StagingDir == Locate(upload_path_of(<<"x">>)).dir

\* C34: once the worker of an upload that was stored without an exception
\* has ended, the staging directory holds no file that worker wrote: not the
\* staged image and no metadata file.
C34_StagingIsLeftEmpty ==
  \A c \in Conns :
    (pc[c] = "done" /\ raised[c] = "none" /\ ValidHeader(c) /\ BucketsOf(c) # {})
      => \A l \in DOMAIN fs : l.dir = StagingDir => fs[l].by # c

\* C35: what the resolver returns has its bucket in the closed set; with an
\* animal bucket the confidence is at least 0.15 and is that of a class of
\* the ANIMAL vocabulary whose label the generalization map turns into the
\* label returned; with the label Human the bucket is non_animal and the
\* confidence at least 0.10.
C35_ResolutionsAreWellFormed ==
  resolution # NoResolution =>
    /\ resolution.folder \in Buckets
    /\ resolution.folder \in {"dog", "cat", "bird", "other_animal"} =>
         /\ resolution.confidence >= 15
         /\ \E i \in {j \in Classes : probabilities[j] = resolution.confidence} :
              /\ IsAnimalClass(i)
              /\ resolution.label = _generalize_animal_label(all_labels[i])
    /\ resolution.label = <<"H","u","m","a","n">> =>
         /\ resolution.folder = "non_animal"
         /\ resolution.confidence >= 10

\* an animal label at exactly 0.15 has been resolved to an animal bucket
C35_Witness ==
  /\ resolution # NoResolution
  /\ resolution.folder \in {"dog", "cat", "bird", "other_animal"}
  /\ resolution.confidence = 15

(***************************************************************************)
(* Properties of the capture device                                        *)
(***************************************************************************)
\* C36: send_to_computer returns True, and the local photo is gone, only
\* when the header line and every read of the file have been passed on in
\* full; when it returns False the local photo is still there.
C36_SentMeansAllTransmitted ==
  device.pc # "off" /\ device.sent # NoSend =>
    /\ device.sent.returned =>
         /\ device.sent.line = "all"
         /\ \A i \in 1..PhotoReads : device.sent.chunks[i] = "all"
    /\ device.sent.filename \notin device.files => device.sent.returned
    /\ ~device.sent.returned => device.sent.filename \in device.files

\* C37: no capture gives its photo a filename an earlier capture has used.
C37_CapturesHaveDistinctNames ==
  device.pc # "off" => ~device.reused

\* the filter that follows f in the cycle
FollowingFilter(f) ==
  IF f = "normal" THEN "bw" ELSE IF f = "bw" THEN "vintage" ELSE "normal"

\* next_filter is called in this step
CallsNextFilter == device.pc = "button2" /\ device'.pc = "flash"

C39_CountIsTheNumberOfChanges ==
  device.pc # "off" => device.filter_change_count = device.changes

\* C40: outside the flash the two filter LEDs show the current filter, both
\* off for normal, the first alone for bw, the second alone for vintage, and
\* the LED states kept in software are those of the outputs; both LEDs are
\* on together only during the flash.
C40_LedsShowTheFilter ==
  device.pc # "off" =>
    /\ device.pc # "flash" =>
         /\ device.FILTER_LED_1 = (get_current_filter(device) = "bw")
         /\ device.FILTER_LED_2 = (get_current_filter(device) = "vintage")
         /\ device.led1_state = device.FILTER_LED_1
         /\ device.led2_state = device.FILTER_LED_2
    /\ (device.FILTER_LED_1 /\ device.FILTER_LED_2) => device.pc = "flash"

\* after two changes and their flashes the loop runs with vintage shown
C40_Witness ==
  /\ device.pc = "loop"
  /\ device.changes = 2
  /\ device.FILTER_LED_2 /\ ~device.FILTER_LED_1

=============================================================================
